---------------------------- MODULE Spec2Model ----------------------------
(***************************************************************************)
(* The expression pipeline of the calculator: tokenize (tokenizer.rs)      *)
(* followed by parse (parser.rs); and the calls the evaluator makes into   *)
(* the unit model (units.rs) and the vector object (objects.rs).           *)
(*                                                                         *)
(* A source text is a sequence of bytes.  A byte is written as a string:   *)
(* an ASCII byte as its character ("1", "+", " "), a byte >= 0x80 as its   *)
(* two hex digits ("C2", "B0").  Indices are the 0-based byte and token    *)
(* offsets of the Rust code; At and Slice translate them to sequences.     *)
(***************************************************************************)
EXTENDS Integers, Sequences, FiniteSets, TLC

VARIABLES
    source,     \* Tokenizer.string: the bytes of the input text
    functions,  \* the external function table: the arity of the function f
    pc,         \* position of the pipeline: "tokenize", "parse", "done"
    index,      \* Tokenizer.index: the byte cursor
    tokens,     \* the `result` vector of tokenize()
    tokError,   \* the Err tokenize() returned, or NoError
    parser,     \* the top-level Parser struct of parse()
    outcome,    \* what parse() returned (or how it aborted)
    call,       \* the call into units.rs or objects.rs, with its arguments
    returned    \* what that call returned (or how it aborted)

vars == <<source, functions, pc, index, tokens, tokError, parser, outcome,
          call, returned>>

-----------------------------------------------------------------------------
(* Bounds of the model *)

\* longest input, in lexemes, of the expression family
MaxLexemes == 4
\* longest input, in lexemes, of the function-call family
MaxCallLexemes == 6
\* longest input, in characters, of the raw text family
MaxChars == 3
\* largest arity the external function table gives the function f
MaxArity == 2
\* the most lexemes of an input built from literals, `=` and brackets
MaxEqualityLexemes == 5
\* the most lexemes of an input built from operands, `in` and format keywords
MaxFormatLexemes == 4
\* the most lexemes of an input that goes on after a format keyword
MaxContinuedLexemes == 5
\* the most Unit values a unit is made of
MaxUnitSize == 5
\* the most Unit values the two units of a conversion are made of together
MaxConvertSize == 6
\* the largest number passed to a call
MaxNumber == 2
\* the most Unit values each of the two units of a push_unit is made of
MaxPushSize == 3
\* the most components a vector has
MaxVectorLen == 2
\* the most arguments a vector is called with
MaxArgs == 2
\* the last day of the dates, counted from day 0
MaxDay == 3
\* the most characters and expressions the text of a date is made of
MaxDateItems == 6

-----------------------------------------------------------------------------
(* Sequence helpers with the 0-based, half-open indexing of Rust slices *)

At(s, i) == s[i + 1]

Slice(s, from, to) == SubSeq(s, from + 1, to)

Last(s) == s[Len(s)]

RECURSIVE Flatten(_)
Flatten(ss) == IF ss = <<>> THEN <<>> ELSE Head(ss) \o Flatten(Tail(ss))

-----------------------------------------------------------------------------
(* tokenizer.rs: character classes *)

DIGITS == {"0", "1", "2", "3", "4", "5", "6", "7", "8", "9"}

NUMBERS == DIGITS \cup {"_"}

LOWER == <<"a", "b", "c", "d", "e", "f", "g", "h", "i", "j", "k", "l", "m",
           "n", "o", "p", "q", "r", "s", "t", "u", "v", "w", "x", "y", "z">>

UPPER == <<"A", "B", "C", "D", "E", "F", "G", "H", "I", "J", "K", "L", "M",
           "N", "O", "P", "Q", "R", "S", "T", "U", "V", "W", "X", "Y", "Z">>

LETTERS == {LOWER[i] : i \in 1..26} \cup {UPPER[i] : i \in 1..26} \cup {"_"}

HEXADECIMAL_CHARS ==
    DIGITS \cup {"a", "b", "c", "d", "e", "f", "A", "B", "C", "D", "E", "F", "_"}

BINARY_DIGITS == {"0", "1", "_"}

WHITESPACE == {" ", "\t", "\r", "\n"}

\* the apostrophe-like characters accepted at the end of an identifier: the
\* predicate compares one byte, cast to a char, with four characters, and
\* only the two ASCII ones (apostrophe, backtick) can equal a byte.  The
\* backtick byte is written "BACKTICK".
IDENTIFIER_SUFFIX == {"'", "BACKTICK"}

\* UTF-8 continuation bytes (0x80..0xBF) among the bytes of the model:
\* str::is_char_boundary is false exactly in front of one of them.
CONTINUATION == {"B0", "A2", "80", "98"}

is_char_boundary(s, i) == i = 0 \/ i >= Len(s) \/ At(s, i) \notin CONTINUATION

\* str::to_lowercase on one byte
ToLowerByte(b) ==
    IF \E i \in 1..26 : UPPER[i] = b
    THEN LOWER[CHOOSE i \in 1..26 : UPPER[i] = b]
    ELSE b

to_lowercase(text) == [i \in 1..Len(text) |-> ToLowerByte(text[i])]

-----------------------------------------------------------------------------
(* tokenizer.rs: TokenType *)

Literals == {"DecimalLiteral", "HexLiteral", "BinaryLiteral"}

Operators == {"Plus", "Minus", "Multiply", "Divide", "Exponentiation",
              "BitwiseAnd", "BitwiseOr", "BitShiftLeft", "BitShiftRight",
              "Of", "In", "Modulo"}

Formats == {"Decimal", "Hex", "Binary", "Scientific"}

TokenType ==
    {"Whitespace"} \cup Literals \cup {"OpenBracket", "CloseBracket"}
    \cup Operators \cup {"ExclamationMark", "PercentSign"} \cup Formats
    \cup {"Identifier", "Comma", "EqualsSign", "DefinitionSign", "QuestionMark"}

is_literal(ty) == ty \in Literals \cup {"QuestionMark"}

is_number(ty) ==
    is_literal(ty) \/ ty \in {"OpenBracket", "CloseBracket", "Identifier"}

is_operator(ty) == ty \in Operators \cup {"EqualsSign"}

is_format(ty) == ty \in Formats

-----------------------------------------------------------------------------
(* tokenizer.rs: Tokenizer *)

\* `while self.accept(any_of(chars)) {}`: the cursor after the run
RECURSIVE accept_while(_, _, _)
accept_while(s, i, chars) ==
    IF i < Len(s) /\ At(s, i) \in chars
    THEN accept_while(s, i + 1, chars)
    ELSE i

\* one `self.accept(any_of(chars))`
accept(s, i, chars) == IF i < Len(s) /\ At(s, i) \in chars THEN i + 1 ELSE i

\* self.is_next(char)
is_next(s, i, char) == i < Len(s) /\ At(s, i) = char

\* a tail that gives the byte in front of the cursor back
decimal_tail_back(s, i) == i - 1

\* the tail of the decimal branch: digits, an optional `.`, digits
decimal_tail(s, i) ==
    accept_while(s, accept(s, accept_while(s, i, NUMBERS), {"."}), NUMBERS)

SingleByteTokens ==
    [c \in {"+", "-", "*", "/", "^", "&", "|", "!", "%", "(", ")", "=", ",", "?"} |->
        CASE c = "+" -> "Plus"
          [] c = "-" -> "Minus"
          [] c = "*" -> "Multiply"
          [] c = "/" -> "Divide"
          [] c = "^" -> "Exponentiation"
          [] c = "&" -> "BitwiseAnd"
          [] c = "|" -> "BitwiseOr"
          [] c = "!" -> "ExclamationMark"
          [] c = "%" -> "PercentSign"
          [] c = "(" -> "OpenBracket"
          [] c = ")" -> "CloseBracket"
          [] c = "=" -> "EqualsSign"
          [] c = "," -> "Comma"
          [] c = "?" -> "QuestionMark"]

\* Tokenizer::next_type with the cursor at i < Len(s): the type found
\* ("None" for Option::None) and the cursor it leaves.
next_type(s, i) ==
    IF At(s, i) \in WHITESPACE
    THEN [ty |-> "Whitespace", index |-> accept_while(s, i + 1, WHITESPACE)]
    ELSE
    LET c == At(s, i)
        j == i + 1
    IN  CASE c \in DIGITS ->
                IF c = "0" /\ j < Len(s)
                THEN LET c2 == At(s, j)
                     IN  CASE c2 \in {"x", "X"} ->
                                [ty |-> "HexLiteral",
                                 index |-> accept_while(s, j + 1, HEXADECIMAL_CHARS)]
                           [] c2 \in {"b", "B"} ->
                                [ty |-> "BinaryLiteral",
                                 index |-> accept_while(s, j + 1, BINARY_DIGITS)]
                           [] c2 \in DIGITS \cup {"."} ->
                                [ty |-> "DecimalLiteral", index |-> decimal_tail(s, j + 1)]
                           [] OTHER ->
                                [ty |-> "DecimalLiteral", index |-> j]
                ELSE [ty |-> "DecimalLiteral", index |-> decimal_tail(s, j)]
          [] c = "." ->
                [ty |-> "DecimalLiteral", index |-> accept_while(s, j, NUMBERS)]
          [] c \in DOMAIN SingleByteTokens ->
                [ty |-> SingleByteTokens[c], index |-> j]
          [] c = "<" /\ is_next(s, j, "<") -> [ty |-> "BitShiftLeft", index |-> j + 1]
          [] c = ">" /\ is_next(s, j, ">") -> [ty |-> "BitShiftRight", index |-> j + 1]
          [] c = ":" /\ is_next(s, j, "=") -> [ty |-> "DefinitionSign", index |-> j + 1]
          [] c = "C2" ->
                IF is_next(s, j, "B0")
                THEN [ty |-> "Identifier", index |-> accept_while(s, j + 1, LETTERS)]
                ELSE [ty |-> "None", index |-> j]
          [] c \in LETTERS ->
                LET k == accept_while(s, j, LETTERS)
                IN  IF k = j /\ At(s, k - 1) \in {"e", "E"}
                    THEN [ty |-> "Identifier", index |-> k]
                    ELSE [ty |-> "Identifier",
                          index |-> accept_while(
                                      s,
                                      accept_while(s, k, LETTERS \cup NUMBERS),
                                      IDENTIFIER_SUFFIX)]
          [] OTHER -> [ty |-> "None", index |-> j]

\* the keyword match of Tokenizer::next on the lower-cased slice
keyword(ty, slice) ==
    IF ty # "Identifier" THEN ty
    ELSE LET word == to_lowercase(slice)
         IN  CASE word = <<"o", "f">> -> "Of"
               [] word = <<"i", "n">> -> "In"
               [] word = <<"m", "o", "d">> -> "Modulo"
               [] word = <<"d", "e", "c", "i", "m", "a", "l">> -> "Decimal"
               [] word = <<"h", "e", "x">> -> "Hex"
               [] word = <<"b", "i", "n", "a", "r", "y">> -> "Binary"
               [] word = <<"s", "c", "i", "e", "n", "t", "i", "f", "i", "c">> -> "Scientific"
               [] word = <<"s", "c", "i">> -> "Scientific"
               [] OTHER -> ty

\* an error range whose end is left where next_type stopped
char_boundary_unmoved(s, end) == end

\* the error range of Tokenizer::next: `end` moved up to a char boundary
RECURSIVE char_boundary_from(_, _)
char_boundary_from(s, end) ==
    IF is_char_boundary(s, end) THEN end ELSE char_boundary_from(s, end + 1)

NoError == [error |-> "Nothing", start |-> 0, end |-> 0]

\* ErrorType::with(range)
with(error, start, end) == [error |-> error, start |-> start, end |-> end]

\* Tokenizer::next with the cursor at i < Len(s): Ok(Some(token)) or Err
tokenizer_next(s, i) ==
    LET nt == next_type(s, i)
    IN  IF nt.ty # "None"
        THEN [ok |-> TRUE,
              index |-> nt.index,
              token |-> [ty |-> keyword(nt.ty, Slice(s, i, nt.index)),
                         text |-> Slice(s, i, nt.index),
                         start |-> i,
                         end |-> nt.index],
              err |-> NoError]
        ELSE [ok |-> FALSE,
              index |-> nt.index,
              token |-> [ty |-> "None", text |-> <<>>, start |-> i, end |-> i],
              err |-> with("InvalidCharacter", i, char_boundary_from(s, nt.index))]

\* a loop body that keeps every token, whitespace included
tokenize_push_all(result, token) == Append(result, token)

\* the body of the loop of tokenize(): whitespace tokens are not kept
tokenize_push(result, token) ==
    IF token.ty = "Whitespace" THEN result ELSE Append(result, token)

-----------------------------------------------------------------------------
(* The external collaborators of the parser (variables.rs, functions.rs) *)

\* the variable table knows the variable a
Variables == {<<"a">>}

is_valid_variable(name) == name \in Variables

\* the function table knows the function f; `functions` gives its arity
is_valid_function(name) == name \in DOMAIN functions

get_arguments_count(name) == functions[name]

-----------------------------------------------------------------------------
(* parser.rs: numbers *)

DigitValue(c) ==
    CASE c = "0" -> 0 [] c = "1" -> 1 [] c = "2" -> 2 [] c = "3" -> 3
      [] c = "4" -> 4 [] c = "5" -> 5 [] c = "6" -> 6 [] c = "7" -> 7
      [] c = "8" -> 8 [] c = "9" -> 9
      [] c \in {"a", "A"} -> 10 [] c \in {"b", "B"} -> 11
      [] c \in {"c", "C"} -> 12 [] c \in {"d", "D"} -> 13
      [] c \in {"e", "E"} -> 14 [] c \in {"f", "F"} -> 15

RECURSIVE RadixValue(_, _)
RadixValue(digits, radix) ==
    IF digits = <<>> THEN 0
    ELSE RadixValue(SubSeq(digits, 1, Len(digits) - 1), radix) * radix
         + DigitValue(Last(digits))

\* the digits without their leading zeros
RECURSIVE Significant(_)
Significant(digits) ==
    IF digits # <<>> /\ Head(digits) = "0" THEN Significant(Tail(digits)) ELSE digits

\* the value does not fit an i64 (it is 2^63 or more): more than 16 hex
\* digits or 16 of which the first is 8 or more; more than 63 binary digits
overflows_i64(digits, radix) ==
    LET sig == Significant(digits)
    IN  IF radix = 16
        THEN Len(sig) > 16 \/ (Len(sig) = 16 /\ DigitValue(Head(sig)) >= 8)
        ELSE Len(sig) > 63

\* A number is kept as <<mantissa, scale>>, standing for mantissa / 10^scale
\* with no trailing zero in the fraction.
RECURSIVE Normal(_, _)
Normal(mantissa, scale) ==
    IF scale > 0 /\ mantissa % 10 = 0
    THEN Normal(mantissa \div 10, scale - 1)
    ELSE <<mantissa, scale>>

\* str::parse::<f64> on the text of a DecimalLiteral token: digits with at
\* most one `.` and at least one digit; anything else is an Err.
parse_f64(text) ==
    LET dots == {i \in 1..Len(text) : text[i] = "."}
        digits == SelectSeq(text, LAMBDA c : c # ".")
    IN  IF /\ \A i \in 1..Len(text) : text[i] \in DIGITS \cup {"."}
           /\ Cardinality(dots) <= 1
           /\ digits # <<>>
        THEN [ok |-> TRUE,
              number |-> Normal(RadixValue(digits, 10),
                                IF dots = {} THEN 0
                                ELSE Len(text) - (CHOOSE i \in dots : TRUE))]
        ELSE [ok |-> FALSE, number |-> <<0, 0>>]

\* parse_f64_radix!: i64::from_str_radix on the text after the two-byte
\* prefix, widened to f64
parse_f64_radix(text, radix) ==
    LET digits == SubSeq(text, 3, Len(text))
        valid == IF radix = 16 THEN HEXADECIMAL_CHARS \ {"_"} ELSE {"0", "1"}
    IN  IF /\ digits # <<>>
           /\ \A i \in 1..Len(digits) : digits[i] \in valid
           /\ ~overflows_i64(digits, radix)
        THEN [ok |-> TRUE, number |-> <<RadixValue(digits, radix), 0>>]
        ELSE [ok |-> FALSE, number |-> <<0, 0>>]

-----------------------------------------------------------------------------
(* parser.rs: AST nodes and the Parser struct *)

\* AstNode::new(data, range): no modifiers, the default format
AstNode_new(data, range) ==
    [data |-> data, range |-> range, modifiers |-> <<>>, format |-> "Default"]

Literal(number) == [kind |-> "Literal", value |-> number]

Operator(op) == [kind |-> "Operator", value |-> op]

VariableReference(name) == [kind |-> "VariableReference", value |-> name]

FunctionInvocation(name, arguments) ==
    [kind |-> "FunctionInvocation", value |-> <<name, arguments>>]

Group(ast) == [kind |-> "Group", value |-> ast]

\* Parser::new(tokens, nesting_level); "None" and <<>> stand for Option::None.
\* status is the control state of the parse() loop: "running", "finished"
\* (next returned Ok(false)), "err" (next returned Err(error)) or "panic".
Parser_new(toks, nesting_level) ==
    [tokens |-> toks,
     nesting_level |-> nesting_level,
     index |-> 0,
     last_token_ty |-> "None",
     next_token_modifiers |-> <<>>,
     equals_sign_index |-> <<>>,
     result |-> <<>>,
     status |-> "running",
     error |-> NoError]

Fail(p, error) == [p EXCEPT !.status = "err", !.error = error]

Abort(p) == [p EXCEPT !.status = "panic"]

\* the values of Result<ParserResult>, and "Panic" for an aborted call
Calculation(ast) ==
    [kind |-> "Calculation", ast |-> ast, rhs |-> <<>>, error |-> NoError]

EqualityCheck(lhs, rhs) ==
    [kind |-> "EqualityCheck", ast |-> lhs, rhs |-> rhs, error |-> NoError]

Err(error) == [kind |-> "Err", ast |-> <<>>, rhs |-> <<>>, error |-> error]

Panic == [kind |-> "Panic", ast |-> <<>>, rhs |-> <<>>, error |-> NoError]

NoOutcome == [kind |-> "None", ast |-> <<>>, rhs |-> <<>>, error |-> NoError]

\* Parser::push_new_node: the node takes the pending prefix modifiers
push_new_node(p, data, range) ==
    [p EXCEPT !.result = Append(@, [AstNode_new(data, range) EXCEPT
                                        !.modifiers = p.next_token_modifiers]),
              !.next_token_modifiers = <<>>]

\* Parser::infer_multiplication
infer_multiplication(p, range) ==
    IF p.last_token_ty # "None" /\ is_number(p.last_token_ty)
    THEN [p EXCEPT !.result = Append(@, AstNode_new(Operator("Multiply"), range))]
    ELSE p

\* Parser::verify_valid_token, called with self.index already past the token
verify_valid_token(p, token) ==
    LET last == p.last_token_ty
        range_err(e) == with(e, token.start, token.end)
        no_formats == IF last # "None" /\ last # "In"
                      THEN TokenType \ Formats
                      ELSE TokenType
        allowed_tokens ==
            CASE last = "None" ->
                    {t \in no_formats :
                        ~(t = "PercentSign" \/ is_format(t) \/ is_operator(t))}
              [] is_number(last) ->
                    {t \in no_formats : ~is_literal(t)}
              [] is_operator(last) /\ last = "In" ->
                    {t \in no_formats : is_format(t)}
              [] is_operator(last) ->
                    {t \in no_formats : ~(is_operator(t) \/ t = "PercentSign")}
              [] is_format(last) ->
                    {t \in no_formats : ~(is_format(t) \/ ~is_operator(t))}
              [] OTHER -> no_formats
        error_type ==
            CASE last = "None" ->
                    IF is_operator(token.ty) \/ token.ty = "PercentSign"
                    THEN "ExpectedNumber"
                    ELSE IF is_format(token.ty) THEN "ExpectedIn" ELSE "Nothing"
              [] is_number(last) -> "ExpectedOperator"
              [] is_operator(last) /\ last = "In" -> "ExpectedFormat"
              [] is_operator(last) -> "ExpectedNumber"
              [] OTHER -> "ExpectedOperator"
        at_end == last # "None" /\ p.index = Len(p.tokens)
        allowed_at_end == IF at_end
                          THEN {t \in allowed_tokens : ~is_operator(t)}
                          ELSE allowed_tokens
        error_at_end == IF at_end /\ ~is_number(token.ty)
                        THEN "ExpectedNumber"
                        ELSE error_type
    IN  IF token.ty = "CloseBracket"
        THEN [ok |-> FALSE, panic |-> FALSE, err |-> range_err("MissingClosingBracket")]
        ELSE IF last # "None" /\ ~is_number(last) /\ ~is_operator(last) /\ ~is_format(last)
        THEN [ok |-> FALSE, panic |-> TRUE, err |-> NoError]
        ELSE IF token.ty \notin allowed_at_end
        THEN [ok |-> FALSE, panic |-> FALSE, err |-> range_err(error_at_end)]
        ELSE [ok |-> TRUE, panic |-> FALSE, err |-> NoError]

-----------------------------------------------------------------------------
(* parser.rs: Parser::next and the handlers it calls *)

\* Parser::new(tokens, nesting_level).parse()
RECURSIVE parse_new(_, _)

\* parse(tokens), the public function: a parser at nesting level 0
parse(toks) == parse_new(toks, 0)

\* the bracket scan of next_group from cursor i at depth n: the cursor, the
\* depth and group_end when the loop ends
RECURSIVE group_scan(_, _, _)
group_scan(toks, i, n) ==
    IF i >= Len(toks)
    THEN [index |-> i, nesting_level |-> n, group_end |-> 0]
    ELSE LET ty == At(toks, i).ty
         IN  CASE ty = "OpenBracket" -> group_scan(toks, i + 1, n + 1)
               [] ty = "CloseBracket" ->
                    IF n - 1 = 0
                    THEN [index |-> i + 1, nesting_level |-> 0, group_end |-> i + 1]
                    ELSE group_scan(toks, i + 1, n - 1)
               [] OTHER -> group_scan(toks, i + 1, n)

\* the range next_group gives the group node
group_range(group_start, group_end) == <<group_start - 1, group_end>>

\* Parser::next_group, called with self.index past the open bracket
next_group(p, open_bracket_token) ==
    LET group_start == p.index
        scan == group_scan(p.tokens, p.index, 1)
        q == [p EXCEPT !.index = scan.index]
        range == group_range(group_start, scan.group_end)
    IN  IF scan.nesting_level # 0
        THEN Fail(q, with("MissingClosingBracket",
                          open_bracket_token.start, open_bracket_token.end))
        ELSE IF scan.group_end - group_start <= 1
        THEN [q EXCEPT !.result = Append(@, AstNode_new(Literal(<<0, 0>>), range))]
        ELSE LET sub == parse_new(Slice(p.tokens, group_start, scan.group_end - 1),
                                  p.nesting_level + 1)
             IN  CASE sub.kind = "Err" -> Fail(q, sub.error)
                   [] sub.kind = "Calculation" ->
                        push_new_node(
                            infer_multiplication(q, <<group_start, group_start + 1>>),
                            Group(sub.ast), range)
                   [] OTHER -> Abort(q)

\* where the argument after a comma starts, given self.index after the comma
next_argument_start(index_after_comma) == index_after_comma + 1

\* the argument loop of next_function from cursor i: how it ends ("Finished",
\* "Unfinished", "Err", "Panic"), the cursor and the arguments parsed
RECURSIVE function_scan(_, _, _, _, _)
function_scan(toks, i, argument_start, nesting_level, arguments) ==
    LET end(kind, cursor, args, error) ==
            [kind |-> kind, index |-> cursor, arguments |-> args, error |-> error]
    IN
    IF i >= Len(toks)
    THEN end("Unfinished", i, arguments, NoError)
    ELSE
    LET ty == At(toks, i).ty
        idx == i + 1
        \* &self.tokens[argument_start..self.index - 1] aborts when the
        \* start lies beyond the end
        sliceable == argument_start <= idx - 1
        argument == parse(Slice(toks, argument_start, idx - 1))
    IN  CASE ty = "Comma" ->
                IF ~sliceable THEN end("Panic", idx, arguments, NoError)
                ELSE CASE argument.kind = "Err" ->
                            end("Err", idx, arguments, argument.error)
                       [] argument.kind = "Calculation" ->
                            function_scan(toks, idx, next_argument_start(idx),
                                          nesting_level,
                                          Append(arguments, argument.ast))
                       [] OTHER -> end("Panic", idx, arguments, NoError)
          [] ty = "CloseBracket" ->
                IF nesting_level - 1 # 0
                THEN function_scan(toks, idx, argument_start,
                                   nesting_level - 1, arguments)
                ELSE IF ~sliceable THEN end("Panic", idx, arguments, NoError)
                ELSE CASE argument.kind = "Err" ->
                            end("Err", idx, arguments, argument.error)
                       [] argument.kind = "Calculation" ->
                            end("Finished", idx,
                                Append(arguments, argument.ast), NoError)
                       [] OTHER -> end("Panic", idx, arguments, NoError)
          [] ty = "OpenBracket" ->
                function_scan(toks, idx, argument_start, nesting_level + 1, arguments)
          [] OTHER ->
                function_scan(toks, idx, argument_start, nesting_level, arguments)

\* Parser::next_function, called with self.index at the open bracket
next_function(p, identifier) ==
    IF ~is_valid_function(identifier.text)
    THEN Fail(p, with("UnknownFunction", identifier.start, identifier.end))
    ELSE
    LET open_bracket == At(p.tokens, p.index)
        scan == function_scan(p.tokens, p.index + 1, p.index + 1, 1, <<>>)
        q == [p EXCEPT !.index = scan.index]
        range == <<open_bracket.start, At(p.tokens, scan.index - 1).end>>
    IN  CASE scan.kind = "Err" -> Fail(q, scan.error)
          [] scan.kind = "Panic" -> Abort(q)
          [] scan.kind = "Unfinished" ->
                Fail(q, with("MissingClosingBracket",
                             open_bracket.start, open_bracket.end))
          [] OTHER ->
                IF Len(scan.arguments) # get_arguments_count(identifier.text)
                THEN Fail(q, with("WrongNumberOfArguments", range[1], range[2]))
                ELSE push_new_node(
                         q, FunctionInvocation(identifier.text, scan.arguments), range)

\* Parser::next_identifier
next_identifier(p, identifier) ==
    IF ~is_valid_variable(identifier.text) /\ ~is_valid_function(identifier.text)
    THEN Fail(p, with("UnknownVariable", identifier.start, identifier.end))
    ELSE
    LET q == infer_multiplication(p, <<identifier.start, identifier.start + 1>>)
    IN  IF q.index < Len(q.tokens) /\ At(q.tokens, q.index).ty = "OpenBracket"
        THEN next_function(q, identifier)
        ELSE push_new_node(q, VariableReference(identifier.text),
                           <<identifier.start, identifier.end>>)

\* the last node of self.result gets one more modifier
push_modifier(result, modifier) ==
    [result EXCEPT ![Len(result)].modifiers = Append(@, modifier)]

\* the operators parser.rs maps a token type to
AstOperators == {"Plus", "Minus", "Multiply", "Divide", "Exponentiation",
                 "BitwiseAnd", "BitwiseOr", "Of", "In"}

\* the index recorded for an equals sign, given self.index after the sign
equals_sign_position(p) == p.index - 1

\* Parser::next on a parser that is still running
parser_next(p) ==
    IF p.index >= Len(p.tokens)
    THEN [p EXCEPT !.status = "finished"]
    ELSE
    LET token == At(p.tokens, p.index)
        q == [p EXCEPT !.index = p.index + 1]
        valid == verify_valid_token(q, token)
        token_range == <<token.start, token.end>>
        seen(r) == IF r.status = "running"
                   THEN [r EXCEPT !.last_token_ty = token.ty]
                   ELSE r
    IN  CASE valid.panic -> Abort(q)
          [] ~valid.ok -> Fail(q, valid.err)
          \* Handle modifiers
          [] token.ty = "ExclamationMark" ->
                IF q.last_token_ty # "None" /\ ~is_operator(q.last_token_ty)
                THEN IF q.result = <<>> THEN Abort(q)
                     ELSE [q EXCEPT !.result = push_modifier(@, "Factorial")]
                ELSE [q EXCEPT !.next_token_modifiers = Append(@, "BitwiseNot")]
          [] token.ty = "PercentSign" ->
                IF q.result = <<>> THEN Abort(q)
                ELSE [q EXCEPT !.result = push_modifier(@, "Percent")]
          \* Handle formats
          [] is_format(token.ty) ->
                IF q.result = <<>> THEN Abort(q)
                ELSE LET removed == SubSeq(q.result, 1, Len(q.result) - 1)
                     IN  IF token.ty = "Scientific" \/ removed = <<>>
                         THEN Abort(q)
                         ELSE [q EXCEPT !.result =
                                 [removed EXCEPT ![Len(removed)].format = token.ty]]
          \* Handle groups
          [] token.ty = "OpenBracket" -> seen(next_group(q, token))
          \* Handle variables
          [] token.ty = "Identifier" -> seen(next_identifier(q, token))
          [] token.ty = "EqualsSign" ->
                IF q.nesting_level # 0
                THEN Fail(q, with("UnexpectedEqualsSign", token.start, token.end))
                ELSE IF q.equals_sign_index # <<>>
                THEN Fail(q, with("UnexpectedSecondEqualsSign", token.start, token.end))
                ELSE [q EXCEPT !.equals_sign_index = <<equals_sign_position(q)>>,
                               !.last_token_ty = token.ty]
          [] token.ty = "DecimalLiteral" ->
                IF parse_f64(token.text).ok
                THEN seen(push_new_node(q, Literal(parse_f64(token.text).number),
                                        token_range))
                ELSE Fail(q, with("InvalidNumber", token.start, token.end))
          [] token.ty = "HexLiteral" ->
                IF parse_f64_radix(token.text, 16).ok
                THEN seen(push_new_node(q, Literal(parse_f64_radix(token.text, 16).number),
                                        token_range))
                ELSE Fail(q, with("InvalidNumber", token.start, token.end))
          [] token.ty = "BinaryLiteral" ->
                IF parse_f64_radix(token.text, 2).ok
                THEN seen(push_new_node(q, Literal(parse_f64_radix(token.text, 2).number),
                                        token_range))
                ELSE Fail(q, with("InvalidNumber", token.start, token.end))
          [] token.ty \in AstOperators ->
                seen(push_new_node(q, Operator(token.ty), token_range))
          [] OTHER -> Abort(q)

\* the loop `while self.next()? {}` of Parser::parse
RECURSIVE parser_run(_)
parser_run(p) == IF p.status # "running" THEN p ELSE parser_run(parser_next(p))

\* the end of Parser::parse, after the loop: the result is split at the
\* equals sign; split_at aborts when the index lies beyond the vector
parser_return(p) ==
    CASE p.status = "err" -> Err(p.error)
      [] p.status = "panic" -> Panic
      [] p.equals_sign_index = <<>> -> Calculation(p.result)
      [] p.equals_sign_index[1] > Len(p.result) -> Panic
      [] OTHER -> EqualityCheck(SubSeq(p.result, 1, p.equals_sign_index[1]),
                                SubSeq(p.result, p.equals_sign_index[1] + 1,
                                       Len(p.result)))

parse_new(toks, nesting_level) ==
    parser_return(parser_run(Parser_new(toks, nesting_level)))

-----------------------------------------------------------------------------
(* The inputs of the model: source texts and function tables *)

SeqsUpTo(alphabet, n) == UNION {[1..k -> alphabet] : k \in 0..n}

\* the lexemes written one after the other, sep between two of them
RECURSIVE Join(_, _)
Join(lexemes, sep) ==
    IF Len(lexemes) <= 1 THEN Flatten(lexemes)
    ELSE Head(lexemes) \o sep \o Join(Tail(lexemes), sep)

Separators == {<<>>, <<" ">>}

\* expressions: literals, operators, modifiers, brackets, a variable, formats
ExpressionLexemes ==
    {<<"1">>, <<"+">>, <<"=">>, <<"!">>, <<"%">>, <<"(">>, <<")">>, <<"a">>,
     <<"i", "n">>, <<"h", "e", "x">>}

\* what follows `f(` in a call of the function f
CallLexemes ==
    {<<"1">>, <<",">>, <<"(">>, <<")">>, <<"+">>, <<"!">>, <<"=">>}

\* nested groups and calls
BracketLexemes == {<<"1">>, <<"(">>, <<")">>, <<"f", "(">>, <<",">>}

\* equations: literals, `=` and brackets
EqualityLexemes == {<<"1">>, <<"=">>, <<"(">>, <<")">>}

\* display formats: operands, a postfix mark, `in` and the format keywords
FormatLexemes ==
    {<<"1">>, <<"(", "1", ")">>, <<"a">>, <<"!">>, <<"i", "n">>,
     <<"h", "e", "x">>, <<"D", "e", "c", "i", "m", "a", "l">>,
     <<"b", "i", "n", "a", "r", "y">>, <<"s", "c", "i">>,
     <<"s", "c", "i", "e", "n", "t", "i", "f", "i", "c">>}

\* an operand, `in`, a format keyword and what may follow
ContinuedLexemes == {<<"1">>, <<"i", "n">>, <<"h", "e", "x">>, <<"+">>}

\* raw text: the characters (UTF-8 encoded) the tokenizer tells apart
Characters ==
    {<<"0">>, <<"1">>, <<".">>, <<"_">>, <<"x">>, <<"b">>, <<"e">>, <<"a">>,
     <<"'">>, <<"+">>, <<"<">>, <<">">>, <<":">>, <<"=">>, <<" ">>, <<"#">>,
     <<"C2", "B0">>, <<"C2", "A2">>, <<"E2", "80", "98">>}

FunctionTables == {[name \in {<<"f">>} |-> n] : n \in 0..MaxArity}

Input(text, table) == [text |-> text, functions |-> table]

ExpressionInputs ==
    {Input(Join(lexemes, sep), [name \in {<<"f">>} |-> 1]) :
        lexemes \in SeqsUpTo(ExpressionLexemes, MaxLexemes), sep \in Separators}

CallInputs ==
    {Input(Join(<<<<"f">>, <<"(">>>> \o lexemes, sep), table) :
        lexemes \in SeqsUpTo(CallLexemes, MaxCallLexemes - 2),
        sep \in Separators, table \in FunctionTables}

EqualityInputs ==
    {Input(Join(lexemes, <<>>), [name \in {<<"f">>} |-> 1]) :
        lexemes \in SeqsUpTo(EqualityLexemes, MaxEqualityLexemes)}

FormatInputs ==
    {Input(Join(lexemes, <<" ">>), [name \in {<<"f">>} |-> 1]) :
        lexemes \in SeqsUpTo(FormatLexemes, MaxFormatLexemes)}

BracketInputs ==
    {Input(Join(lexemes, <<>>), [name \in {<<"f">>} |-> 1]) :
        lexemes \in SeqsUpTo(BracketLexemes, MaxLexemes)}

ContinuedInputs ==
    {Input(Join(lexemes, <<" ">>), [name \in {<<"f">>} |-> 1]) :
        lexemes \in SeqsUpTo(ContinuedLexemes, MaxContinuedLexemes)}

TextInputs ==
    {Input(Flatten(chars), [name \in {<<"f">>} |-> 1]) :
        chars \in SeqsUpTo(Characters, MaxChars)}


-----------------------------------------------------------------------------
(* The pipeline parse(&tokenize(input)?) as a state machine *)

\* no call into units.rs or objects.rs is made
NoCall == [fn |-> "None"]

NotReturned == [kind |-> "Pending"]

\* the state when tokenize is called on one of the inputs
InitOn(inputs) ==
    /\ \E input \in inputs :
        /\ source = input.text
        /\ functions = input.functions
    /\ pc = "tokenize"
    /\ index = 0
    /\ tokens = <<>>
    /\ tokError = NoError
    /\ parser = Parser_new(<<>>, 0)
    /\ outcome = NoOutcome
    /\ call = NoCall
    /\ returned = NotReturned

Init ==
    \/ InitOn(ExpressionInputs)
    \/ InitOn(CallInputs)
    \/ InitOn(EqualityInputs)
    \/ InitOn(FormatInputs)
    \/ InitOn(ContinuedInputs)
    \/ InitOn(TextInputs)

\* the pipeline on the raw texts alone
InitText == InitOn(TextInputs)

\* one iteration of the loop of tokenize(): Tokenizer::next returns a token,
\* which is kept unless it is whitespace, or an error, which tokenize returns
TokenizerNext ==
    /\ pc = "tokenize"
    /\ index < Len(source)
    /\ LET step == tokenizer_next(source, index)
       IN  /\ index' = step.index
           /\ IF step.ok
              THEN /\ tokens' = tokenize_push(tokens, step.token)
                   /\ UNCHANGED <<pc, tokError, outcome>>
              ELSE /\ tokError' = step.err
                   /\ pc' = "done"
                   /\ outcome' = Err(step.err)
                   /\ UNCHANGED tokens
    /\ UNCHANGED <<source, functions, parser, call, returned>>

\* Tokenizer::next returns Ok(None): tokenize returns its result and parse
\* builds the top-level parser over it
TokenizeReturn ==
    /\ pc = "tokenize"
    /\ index >= Len(source)
    /\ pc' = "parse"
    /\ parser' = Parser_new(tokens, 0)
    /\ UNCHANGED <<source, functions, index, tokens, tokError, outcome, call, returned>>

\* one iteration of the loop of Parser::parse on the top-level parser
ParserNext ==
    /\ pc = "parse"
    /\ parser.status = "running"
    /\ parser' = parser_next(parser)
    /\ UNCHANGED <<source, functions, pc, index, tokens, tokError, outcome,
                   call, returned>>

\* the loop of Parser::parse has ended: parse takes self.result and returns
ParserReturn ==
    /\ pc = "parse"
    /\ parser.status # "running"
    /\ outcome' = parser_return(parser)
    /\ parser' = [parser EXCEPT !.result = <<>>]
    /\ pc' = "done"
    /\ UNCHANGED <<source, functions, index, tokens, tokError, call, returned>>

Next == TokenizerNext \/ TokenizeReturn \/ ParserNext \/ ParserReturn

Spec == Init /\ [][Next]_vars

SpecText == InitText /\ [][Next]_vars

\* the pipeline on bracketed expressions and calls, whose loops run on: no
\* step that can be taken is put off for ever
InitBrackets == InitOn(BracketInputs)

\* an iteration of the loop of Parser::parse can be taken
ParserRuns == pc = "parse" /\ parser.status = "running"

\* weak fairness of each of the four steps; that of ParserNext is written
\* out, with ParserRuns for ENABLED <<ParserNext>>_vars
FairSpec ==
    /\ InitBrackets
    /\ [][Next]_vars
    /\ WF_vars(TokenizerNext)
    /\ WF_vars(TokenizeReturn)
    /\ ([]<>~ParserRuns \/ []<><<ParserNext>>_vars)
    /\ WF_vars(ParserReturn)

-----------------------------------------------------------------------------
(* units.rs: compound units and their conversion *)

\* An f64 of the unit model is kept as the fraction <<p, q>> in lowest terms,
\* q > 0: the values of the model are small integers scaled by powers of
\* ten, which f64 multiplies and divides exactly.
RECURSIVE GCD(_, _)
GCD(a, b) == IF b = 0 THEN a ELSE GCD(b, a % b)

Abs(a) == IF a < 0 THEN -a ELSE a

\* <<0, 0>> stands for NaN, <<1, 0>> and <<-1, 0>> for the infinities
Ratio(p, q) ==
    LET g == GCD(Abs(p), Abs(q))
        sign == IF q < 0 THEN -1 ELSE 1
    IN  IF q = 0
        THEN <<(IF p > 0 THEN 1 ELSE IF p < 0 THEN -1 ELSE 0), 0>>
        ELSE <<sign * (p \div g), sign * (q \div g)>>

\* f64 `*` and `/`
Times(x, y) == Ratio(x[1] * y[1], x[2] * y[2])

DividedBy(x, y) == Ratio(x[1] * y[2], x[2] * y[1])

\* enum Unit
Unit_Unit(name) == [kind |-> "Unit", value |-> name]

Unit_Product(units) == [kind |-> "Product", value |-> units]

Unit_Fraction(numerator, denominator) ==
    [kind |-> "Fraction", value |-> <<numerator, denominator>>]

\* Result<T> of the calls into units.rs and objects.rs
NoRanges == [error |-> "Nothing", ranges |-> <<>>]

Result_Ok(value) == [kind |-> "Ok", value |-> value, error |-> NoRanges]

\* error!(Kind: range, ...): return Err of the error kind with its ranges
error(kind, ranges) ==
    [kind |-> "Err", value |-> <<>>, error |-> [error |-> kind, ranges |-> ranges]]

\* a call that panicked
Result_Panic == [kind |-> "Panic", value |-> <<>>, error |-> NoRanges]

\* a push that puts the new factor in front
push_front(units, other) == <<other>> \o units

\* Vec::push on the factors of a product
push(units, other) == Append(units, other)

\* Unit::push_unit
RECURSIVE push_unit(_, _)
push_unit(self, other) ==
    CASE self.kind = "Unit" -> Unit_Product(<<self, other>>)
      [] self.kind = "Product" -> Unit_Product(push(self.value, other))
      [] self.kind = "Fraction" ->
            LET num == self.value[1]
                denom == self.value[2]
            IN  IF other.kind = "Fraction"
                THEN Unit_Fraction(push_unit(num, other.value[1]),
                                   push_unit(denom, other.value[2]))
                ELSE Unit_Fraction(push_unit(num, other), denom)

\* the unit names of the model: metre, decimetre (ten to a metre), second
UnitNames == {<<"m">>, <<"d", "m">>, <<"s">>}

\* how many decimetres the length unit is
Decimetres(name) == IF name = <<"m">> THEN 10 ELSE 1

\* unit_conversion::convert_units, the conversion of one unit name into
\* another: a unit into itself leaves n as it is, a length into a length
\* scales it, and there is no conversion between a length and a time
convert_units(src, dst, n, range) ==
    CASE src = dst -> Result_Ok(n)
      [] src # <<"s">> /\ dst # <<"s">> ->
            Result_Ok(Times(n, Ratio(Decimetres(src), Decimetres(dst))))
      [] OTHER -> error("UnknownConversion", <<range>>)

\* a probe that is the value being converted
probe_is_value(n) == n

\* the value the denominator of a fraction is converted with: 1.0
denominator_probe(n) == <<1, 1>>

RECURSIVE convert(_, _, _, _)

\* src_units.iter().zip(dst_units).try_fold(n, ..): the pairs of factors in
\* order, as far as both lists go, each converting the value so far; the
\* first Err ends the fold
RECURSIVE convert_zip(_, _, _, _)
convert_zip(src_units, dst_units, n, range) ==
    IF src_units = <<>> \/ dst_units = <<>> THEN Result_Ok(n)
    ELSE LET step == convert(Head(src_units), Head(dst_units), n, range)
         IN  IF step.kind # "Ok" THEN step
             ELSE convert_zip(Tail(src_units), Tail(dst_units), step.value, range)

\* units::convert (the currency table is passed through to convert_units)
convert(src_unit, dst_unit, n, range) ==
    CASE src_unit.kind = "Product" ->
            IF dst_unit.kind # "Product" THEN error("UnitsNotMatching", <<range>>)
            ELSE convert_zip(src_unit.value, dst_unit.value, n, range)
      [] src_unit.kind = "Fraction" ->
            IF dst_unit.kind # "Fraction" THEN error("UnitsNotMatching", <<range>>)
            ELSE LET numerator ==
                         convert(src_unit.value[1], dst_unit.value[1], n, range)
                     denominator ==
                         convert(src_unit.value[2], dst_unit.value[2],
                                 denominator_probe(n), range)
                 IN  IF numerator.kind # "Ok" THEN numerator
                     ELSE IF denominator.kind # "Ok" THEN denominator
                     ELSE Result_Ok(DividedBy(numerator.value, denominator.value))
      [] src_unit.kind = "Unit" ->
            IF dst_unit.kind # "Unit" THEN error("UnitsNotMatching", <<range>>)
            ELSE convert_units(src_unit.value, dst_unit.value, n, range)

\* how many Unit values a unit is made of
RECURSIVE UnitSize(_)
RECURSIVE UnitsSize(_)
UnitsSize(units) ==
    IF units = <<>> THEN 0 ELSE UnitSize(Head(units)) + UnitsSize(Tail(units))

UnitSize(unit) ==
    CASE unit.kind = "Unit" -> 1
      [] unit.kind = "Product" -> 1 + UnitsSize(unit.value)
      [] unit.kind = "Fraction" -> 1 + UnitSize(unit.value[1]) + UnitSize(unit.value[2])

\* the units, and the lists of units, made of at most `size` Unit values; a
\* product has at least one factor
RECURSIVE Units(_)
RECURSIVE UnitLists(_)
UnitLists(size) ==
    {<<>>} \cup UNION {{<<unit>> \o rest : rest \in UnitLists(size - UnitSize(unit))} :
                          unit \in Units(size)}

Units(size) ==
    IF size < 1 THEN {}
    ELSE {Unit_Unit(name) : name \in UnitNames}
         \cup {Unit_Product(units) : units \in UnitLists(size - 1) \ {<<>>}}
         \cup UNION {{Unit_Fraction(numerator, denominator) :
                          denominator \in Units(size - 1 - UnitSize(numerator))} :
                        numerator \in Units(size - 2)}

\* the caller's source ranges
Ranges == {<<0, 1>>, <<2, 5>>}

\* an f64 argument: a small whole number
Numbers(max) == {<<k, 1>> : k \in 0..max}

\* the state when convert is called on src_unit and dst_unit out of a set
\* of pairs
InitConvert(pairs) ==
    /\ source = <<>>
    /\ functions = [name \in {<<"f">>} |-> 1]
    /\ pc = "call"
    /\ index = 0
    /\ tokens = <<>>
    /\ tokError = NoError
    /\ parser = Parser_new(<<>>, 0)
    /\ outcome = NoOutcome
    /\ \E pair \in pairs, n \in Numbers(MaxNumber), range \in Ranges :
            call = [fn |-> "convert", src_unit |-> pair[1], dst_unit |-> pair[2],
                    n |-> n, range |-> range]
    /\ returned = NotReturned

\* pairs of units made of at most `size` Unit values together
UnitPairs(size) ==
    UNION {{<<src_unit, dst_unit>> :
               dst_unit \in Units(size - UnitSize(src_unit))} :
            src_unit \in Units(size - 1)}

InitConvertPairs == InitConvert(UnitPairs(MaxConvertSize))

\* a unit of at most MaxUnitSize Unit values, converted into itself
InitConvertSame == InitConvert({<<unit, unit>> : unit \in Units(MaxUnitSize)})

\* the call of convert returns
Convert ==
    /\ pc = "call"
    /\ call.fn = "convert"
    /\ returned' = convert(call.src_unit, call.dst_unit, call.n, call.range)
    /\ pc' = "done"
    /\ UNCHANGED <<source, functions, index, tokens, tokError, parser, outcome, call>>

SpecConvert == InitConvertPairs /\ [][Convert]_vars

SpecConvertSame == InitConvertSame /\ [][Convert]_vars

\* the state when receiver.push_unit(other) is called, on two units of at
\* most MaxPushSize Unit values each
InitPushUnit ==
    /\ source = <<>>
    /\ functions = [name \in {<<"f">>} |-> 1]
    /\ pc = "call"
    /\ index = 0
    /\ tokens = <<>>
    /\ tokError = NoError
    /\ parser = Parser_new(<<>>, 0)
    /\ outcome = NoOutcome
    /\ \E receiver \in Units(MaxPushSize), other \in Units(MaxPushSize) :
            call = [fn |-> "push_unit", self |-> receiver, other |-> other]
    /\ returned = NotReturned

\* the call of push_unit returns
PushUnit ==
    /\ pc = "call"
    /\ call.fn = "push_unit"
    /\ returned' = Result_Ok(push_unit(call.self, call.other))
    /\ pc' = "done"
    /\ UNCHANGED <<source, functions, index, tokens, tokError, parser, outcome, call>>

SpecPushUnit == InitPushUnit /\ [][PushUnit]_vars

-----------------------------------------------------------------------------
\* Vector (astgen/objects.rs)

\* f64 addition and subtraction on exact fractions
Add(x, y) ==
    IF x[2] = 0 \/ y[2] = 0
    THEN (IF x[2] = 0 /\ y[2] = 0 /\ x[1] = y[1] THEN x
          ELSE IF x[2] = 0 /\ y[2] = 0 THEN <<0, 0>>
          ELSE IF x[2] = 0 THEN x ELSE y)
    ELSE Ratio(x[1] * y[2] + y[1] * x[2], x[2] * y[2])

Negated(x) == <<-x[1], x[2]>>

Subtract(x, y) == Add(x, Negated(y))

NAN == <<0, 0>>

\* f64::trunc: the whole part, rounded towards zero
trunc(x) ==
    IF x[2] = 0 THEN x
    ELSE IF x[1] >= 0 THEN <<x[1] \div x[2], 1>>
    ELSE <<-((-x[1]) \div x[2]), 1>>

\* f64::fract: x - x.trunc() (NaN for NaN and the infinities)
fract(x) == IF x[2] = 0 THEN NAN ELSE Subtract(x, trunc(x))

\* the cast "as usize": NaN and negative numbers give 0, other numbers
\* their whole part (the model's numbers stay far below usize::MAX)
as_usize(x) ==
    IF x[2] = 0 THEN 0
    ELSE IF x[1] < 0 THEN 0
    ELSE x[1] \div x[2]

\* struct Vector
Vector(numbers) == [numbers |-> numbers]

\* AstNodeData::Object(CalculatorObject::Vector(vector))
Object_Vector(vector) == [kind |-> "Vector", value |-> vector]

\* struct NumberValue, of which call reads the number
NumberValue(number) == [number |-> number]

\* a length check that never fires
lengths_never_differ(numbers, other_numbers) == FALSE

\* numbers.len() != other_vec.numbers.len()
lengths_differ(numbers, other_numbers) == Len(numbers) # Len(other_numbers)

\* the closure's Minus arm
minus(num, other, self_is_rhs) ==
    IF self_is_rhs THEN Subtract(other, num) ELSE Subtract(num, other)

\* numbers.into_iter().zip(other).map(..).collect(): zip stops at the
\* shorter of the two
zip_map(numbers, other_numbers, operator, self_is_rhs) ==
    LET length == IF Len(numbers) < Len(other_numbers)
                  THEN Len(numbers) ELSE Len(other_numbers)
    IN  [i \in 1..length |->
            IF operator = "Plus"
            THEN Add(numbers[i], other_numbers[i])
            ELSE minus(numbers[i], other_numbers[i], self_is_rhs)]

\* <Vector as Object>::apply; op is <<operator, range>>
Vector_apply(self, self_range, op, other, self_is_rhs) ==
    LET numbers == self.numbers
    IN  CASE op[1] = "Multiply" ->
                IF other.data.kind # "Literal"
                THEN error("ExpectedNumber", <<other.range>>)
                ELSE Result_Ok(AstNode_new(
                        Object_Vector(Vector([i \in 1..Len(numbers) |->
                            Times(numbers[i], other.data.value)])),
                        self_range))
          [] op[1] \in {"Plus", "Minus"} ->
                IF other.data.kind # "Vector"
                THEN error("ExpectedVector", <<other.range>>)
                ELSE IF lengths_differ(numbers, other.data.value.numbers)
                THEN error("VectorLengthsNotMatching", <<self_range, other.range>>)
                ELSE Result_Ok(AstNode_new(
                        Object_Vector(Vector(zip_map(numbers,
                            other.data.value.numbers, op[1], self_is_rhs))),
                        self_range))
          [] OTHER -> error("UnsupportedOperation", <<op[2]>>)

\* slice::get with a usize (zero-based)
get(numbers, i) ==
    IF i < Len(numbers)
    THEN [kind |-> "Some", value |-> numbers[i + 1]]
    ELSE [kind |-> "None", value |-> NAN]

\* <Vector as Object>::call; args is a sequence of <<NumberValue, range>>
Vector_call(self, self_range, args, args_range) ==
    IF Len(args) > 1
    THEN error("WrongNumberOfArguments", <<args_range>>)
    ELSE IF Len(args) = 0
    THEN Result_Panic
    ELSE LET number == args[1][1]
             range == args[1][2]
         IN  IF fract(number.number) # <<0, 1>>
             THEN error("ExpectedInteger", <<range>>)
             ELSE LET found == get(self.numbers, as_usize(number.number))
                  IN  IF found.kind = "Some"
                      THEN Result_Ok(AstNode_new(Literal(found.value), self_range))
                      ELSE Result_Ok(AstNode_new(Literal(NAN), self_range))

\* the components of the vectors
Components == {<<-1, 1>>, <<0, 1>>, <<2, 1>>, <<1, 2>>}

\* the vectors of at most MaxVectorLen components
Vectors(length) ==
    {Vector(numbers) : numbers \in UNION {[1..n -> Components] : n \in 0..length}}

\* the operators apply is called with, each with its range
AppliedOperators == {<<"Plus", <<3, 4>>>>, <<"Minus", <<3, 4>>>>,
                     <<"Multiply", <<3, 4>>>>, <<"Divide", <<3, 4>>>>}

\* the other operand of apply: a number or a vector, with its range
Operands(length) ==
    {AstNode_new(data, range) :
        data \in {Literal(n) : n \in {<<2, 1>>, <<1, 2>>}}
                 \cup {Object_Vector(v) : v \in Vectors(length)},
        range \in {<<4, 5>>, <<4, 9>>}}

\* the state when vector.apply(self_range, op, other, self_is_rhs) is called
InitVectorApply ==
    /\ source = <<>>
    /\ functions = [name \in {<<"f">>} |-> 1]
    /\ pc = "call"
    /\ index = 0
    /\ tokens = <<>>
    /\ tokError = NoError
    /\ parser = Parser_new(<<>>, 0)
    /\ outcome = NoOutcome
    /\ \E receiver \in Vectors(MaxVectorLen), self_range \in Ranges,
          op \in AppliedOperators, other \in Operands(MaxVectorLen),
          self_is_rhs \in BOOLEAN :
            call = [fn |-> "apply", self |-> receiver, self_range |-> self_range,
                    op |-> op, other |-> other, self_is_rhs |-> self_is_rhs]
    /\ returned = NotReturned

\* the call of apply returns
VectorApply ==
    /\ pc = "call"
    /\ call.fn = "apply"
    /\ returned' = Vector_apply(call.self, call.self_range, call.op,
                                call.other, call.self_is_rhs)
    /\ pc' = "done"
    /\ UNCHANGED <<source, functions, index, tokens, tokError, parser, outcome, call>>

SpecVectorApply == InitVectorApply /\ [][VectorApply]_vars

\* the numbers call is given as arguments: whole numbers from -1 to past
\* the longest vector, and numbers with a fractional part
Indices(length) ==
    {<<k, 1>> : k \in -1..(length + 1)} \cup {<<1, 2>>, <<-1, 2>>, <<3, 2>>}

\* the argument lists of at most MaxArgs arguments
Arguments(length, count) ==
    UNION {[1..n -> {<<NumberValue(i), range>> :
                        i \in Indices(length), range \in {<<6, 7>>, <<8, 9>>}}] :
           n \in 0..count}

\* the state when vector.call(self_range, args, args_range) is called
InitVectorCall ==
    /\ source = <<>>
    /\ functions = [name \in {<<"f">>} |-> 1]
    /\ pc = "call"
    /\ index = 0
    /\ tokens = <<>>
    /\ tokError = NoError
    /\ parser = Parser_new(<<>>, 0)
    /\ outcome = NoOutcome
    /\ \E receiver \in Vectors(MaxVectorLen), self_range \in Ranges,
          args \in Arguments(MaxVectorLen, MaxArgs) :
            call = [fn |-> "call", self |-> receiver, self_range |-> self_range,
                    args |-> args, args_range |-> <<5, 10>>]
    /\ returned = NotReturned

\* the call of call returns
VectorCall ==
    /\ pc = "call"
    /\ call.fn = "call"
    /\ returned' = Vector_call(call.self, call.self_range, call.args, call.args_range)
    /\ pc' = "done"
    /\ UNCHANGED <<source, functions, index, tokens, tokError, parser, outcome, call>>

SpecVectorCall == InitVectorCall /\ [][VectorCall]_vars

-----------------------------------------------------------------------------
\* DateObject (astgen/objects.rs).  A NaiveDate is the number of its day, a
\* Duration is counted in days (its nanoseconds divided by 86,400 * 10^9).

\* struct DateObject
DateObject(date) == [date |-> date]

\* AstNodeData::Object(CalculatorObject::Date(object))
Object_Date(object) == [kind |-> "Date", value |-> object]

\* Option<Unit>
None == [kind |-> "None", value |-> <<>>]

Some(value) == [kind |-> "Some", value |-> value]

\* result.unit = unit
with_unit(node, unit) ==
    [data |-> node.data, range |-> node.range, modifiers |-> node.modifiers,
     format |-> node.format, unit |-> unit]

\* the first and the last day a NaiveDate holds (1 January -262144 and
\* 31 December 262143), 1 January of the year 1 being day 1
NaiveDate_MIN == -95746495

NaiveDate_MAX == 95745764

\* the units of time and the days each of them lasts
TimeUnits == {<<"d">>, <<"h">>}

DaysOf(name) == IF name = <<"d">> THEN <<1, 1>> ELSE <<1, 24>>

\* as_nanoseconds: the number in its unit as a duration, for a unit of time
as_nanoseconds(unit, n, range) ==
    IF unit.kind = "Some" /\ unit.value.kind = "Unit" /\ unit.value.value \in TimeUnits
    THEN Result_Ok(Times(n, DaysOf(unit.value.value)))
    ELSE error("ExpectedTimeValue", <<range>>)

\* NaiveDate::checked_add_signed: the whole days of the duration are added
checked_add_signed(date, duration) ==
    LET new_date == date + trunc(duration)[1]
    IN  IF new_date < NaiveDate_MIN \/ new_date > NaiveDate_MAX
        THEN None
        ELSE Some(new_date)

\* self.date.signed_duration_since(object.date)
signed_duration_since(date, other_date) == date - other_date

\* <DateObject as Object>::apply; op is <<operator, range>>
Date_apply(self, self_range, op, other, self_is_rhs) ==
    CASE op[1] = "Plus" ->
            IF other.data.kind = "Literal"
            THEN LET n == as_nanoseconds(other.unit, other.data.value, other.range)
                     new_date == checked_add_signed(self.date, n.value)
                 IN  IF n.kind # "Ok" THEN n
                     ELSE IF new_date.kind = "None"
                     THEN error("DateTooBig", <<<<self_range[1], other.range[2]>>>>)
                     ELSE Result_Ok(with_unit(AstNode_new(
                            Object_Date(DateObject(new_date.value)), <<0, 1>>), None))
            ELSE error("InvalidSide", <<other.range>>)
      [] op[1] = "Minus" ->
            IF other.data.kind = "Literal"
            THEN IF self_is_rhs
                 THEN error("WrongOrder", <<other.range, self_range>>)
                 ELSE LET n == as_nanoseconds(other.unit, other.data.value, other.range)
                          new_date == checked_add_signed(self.date, Negated(n.value))
                      IN  IF n.kind # "Ok" THEN n
                          ELSE IF new_date.kind = "None"
                          THEN error("DateTooBig", <<<<self_range[1], other.range[2]>>>>)
                          ELSE Result_Ok(with_unit(AstNode_new(
                                 Object_Date(DateObject(new_date.value)), self_range), None))
            ELSE IF other.data.kind = "Date"
            THEN LET duration == signed_duration_since(self.date, other.data.value.date)
                     days == <<duration, 1>>
                 IN  Result_Ok(with_unit(AstNode_new(Literal(days), self_range),
                                         Some(Unit_Unit(<<"d">>))))
            ELSE error("InvalidSide", <<other.range>>)
      [] OTHER -> error("UnsupportedOperation", <<op[2]>>)

\* the dates apply is called with
Dates(last) == {DateObject(day) : day \in 0..last}

\* the other operand of a date: a number with or without a unit, a date or
\* a vector, with its range
DateOperands(last) ==
    {with_unit(AstNode_new(data, range), unit) :
        data \in {Literal(n) : n \in {<<2, 1>>, <<1, 2>>, <<24, 1>>}}
                 \cup {Object_Date(d) : d \in Dates(last)}
                 \cup {Object_Vector(Vector(<<>>))},
        range \in {<<4, 5>>, <<4, 9>>},
        unit \in {None, Some(Unit_Unit(<<"d">>)), Some(Unit_Unit(<<"h">>)),
                  Some(Unit_Unit(<<"m">>))}}

\* the state when date.apply(self_range, op, other, self_is_rhs) is called
InitDateApply ==
    /\ source = <<>>
    /\ functions = [name \in {<<"f">>} |-> 1]
    /\ pc = "call"
    /\ index = 0
    /\ tokens = <<>>
    /\ tokError = NoError
    /\ parser = Parser_new(<<>>, 0)
    /\ outcome = NoOutcome
    /\ \E receiver \in Dates(MaxDay), self_range \in Ranges,
          op \in AppliedOperators, other \in DateOperands(MaxDay),
          self_is_rhs \in BOOLEAN :
            call = [fn |-> "date_apply", self |-> receiver, self_range |-> self_range,
                    op |-> op, other |-> other, self_is_rhs |-> self_is_rhs]
    /\ returned = NotReturned

\* the call of apply returns
DateApply ==
    /\ pc = "call"
    /\ call.fn = "date_apply"
    /\ returned' = Date_apply(call.self, call.self_range, call.op,
                              call.other, call.self_is_rhs)
    /\ pc' = "done"
    /\ UNCHANGED <<source, functions, index, tokens, tokError, parser, outcome, call>>

SpecDateApply == InitDateApply /\ [][DateApply]_vars

\* enum ObjectArgument; the value of an Ast argument is what
\* Engine::evaluate returns for it
ObjectArgument_Ast(value, range) == [kind |-> "Ast", value |-> value, range |-> range]

ObjectArgument_String(str, range) == [kind |-> "String", value |-> str, range |-> range]

\* ObjectArgument::is_ast
is_ast(arg) == arg.kind = "Ast"

\* matches!(arg, ObjectArgument::String(s, ..) if s.is_empty())
is_empty_string(arg) == arg.kind = "String" /\ arg.value = <<>>

\* enum Value and the error of an evaluation
Value_Number(number) == [kind |-> "Number", value |-> number]

Value_Object == [kind |-> "Object", value |-> <<0, 0>>]

Value_Err == [kind |-> "Err", value |-> <<0, 0>>]

\* str::split on the delimiter: the pieces between the delimiters
RECURSIVE split_from(_, _, _)
split_from(str, delimiter, piece) ==
    IF str = <<>> THEN <<piece>>
    ELSE IF Head(str) = delimiter
    THEN <<piece>> \o split_from(Tail(str), delimiter, <<>>)
    ELSE split_from(Tail(str), delimiter, Append(piece, Head(str)))

split(str, delimiter) == split_from(str, delimiter, <<>>)

\* str::trim_start and str::trim_end
RECURSIVE trim_start(_)
trim_start(str) ==
    IF str # <<>> /\ Head(str) \in WHITESPACE THEN trim_start(Tail(str)) ELSE str

RECURSIVE trim_end(_)
trim_end(str) ==
    IF str # <<>> /\ Last(str) \in WHITESPACE
    THEN trim_end(SubSeq(str, 1, Len(str) - 1))
    ELSE str

trim(str) == trim_end(trim_start(str))

\* usize::saturating_sub
saturating_sub(a, b) == IF a > b THEN a - b ELSE 0

\* the closure of lines 151-161 on the pieces of one string argument: each
\* piece trimmed, with its range counted on from range_offset
RECURSIVE split_arguments(_, _)
split_arguments(pieces, range_offset) ==
    IF pieces = <<>> THEN <<>>
    ELSE LET s == Head(pieces)
             first_end == IF range_offset + Len(s) > range_offset + 1
                          THEN range_offset + Len(s) ELSE range_offset + 1
             started == trim_start(s)
             start == range_offset + saturating_sub(Len(started), Len(s))
             ended == trim_end(started)
             end == first_end - saturating_sub(Len(ended), Len(started))
         IN  <<ObjectArgument_String(ended, <<start, end>>)>>
             \o split_arguments(Tail(pieces), first_end + 1)

\* the loop of lines 144-166
RECURSIVE split_all(_, _)
split_all(given_args, delimiter) ==
    IF given_args = <<>> THEN <<>>
    ELSE LET arg == Head(given_args)
         IN  (IF is_ast(arg) THEN <<arg>>
              ELSE split_arguments(split(arg.value, delimiter), arg.range[1]))
             \o split_all(Tail(given_args), delimiter)

\* Vec::remove at a zero-based position
remove(args, i) == SubSeq(args, 1, i) \o SubSeq(args, i + 2, Len(args))

\* a check of the fragment in front that looks at no fragment
front_is_free(args, i) == TRUE

\* the condition of line 181 on the fragment in front of args[i]
front_is_empty_string(args, i) == is_empty_string(args[i])

\* the loop of lines 168-192 from position i on
RECURSIVE legality(_, _)
legality(args, i) ==
    IF i >= Len(args) THEN Result_Ok(args)
    ELSE IF ~is_ast(args[i + 1]) THEN legality(args, i + 1)
    ELSE LET range == args[i + 1].range
             follows == i # Len(args) - 1
             follower_ok == follows => is_empty_string(args[i + 2])
             after == IF follows /\ follower_ok THEN remove(args, i + 1) ELSE args
         IN  IF ~follower_ok
             THEN error("ExpectedDot", <<<<range[2], range[2] + 1>>>>)
             ELSE IF i # 0
             THEN IF front_is_empty_string(after, i)
                  THEN legality(remove(after, i - 1), i)
                  ELSE IF range[1] = 0 THEN Result_Panic
                  ELSE error("ExpectedDot", <<<<range[1] - 1, range[1]>>>>)
             ELSE legality(after, i + 1)

\* str::parse::<i32>: an optional sign and at least one digit, in the range
\* of an i32
parse_i32(str) ==
    LET signed == str # <<>> /\ Head(str) \in {"+", "-"}
        digits == IF signed THEN Tail(str) ELSE str
        sig == Significant(digits)
        negative == signed /\ Head(str) = "-"
        fits == \/ Len(sig) < 10
                \/ /\ Len(sig) = 10
                   /\ LET high == RadixValue(SubSeq(sig, 1, 9), 10)
                          low == DigitValue(sig[10])
                      IN  \/ high < 214748364
                          \/ high = 214748364 /\ low <= (IF negative THEN 8 ELSE 7)
    IN  IF /\ digits # <<>>
           /\ \A i \in 1..Len(digits) : digits[i] \in DIGITS
           /\ fits
        THEN [ok |-> TRUE,
              number |-> IF Len(sig) = 10 /\ negative /\ sig[10] = "8"
                            /\ RadixValue(SubSeq(sig, 1, 9), 10) = 214748364
                         THEN -2147483647 - 1
                         ELSE IF negative THEN -RadixValue(sig, 10)
                         ELSE RadixValue(sig, 10)]
        ELSE [ok |-> FALSE, number |-> 0]

\* the closure as_number
as_number(arg) ==
    IF arg.kind = "String"
    THEN LET parsed == parse_i32(arg.value)
         IN  IF parsed.ok THEN Result_Ok(parsed.number)
             ELSE error("InvalidNumber", <<arg.range>>)
    ELSE CASE arg.value.kind = "Err" -> error("DivideByZero", <<arg.range>>)
           [] arg.value.kind = "Object" -> error("ExpectedNumber", <<arg.range>>)
           [] OTHER ->
                IF fract(arg.value.value) # <<0, 1>>
                THEN error("ExpectedInteger", <<arg.range>>)
                ELSE Result_Ok(arg.value.value[1])

\* enum DateFormat and the positions DateFormat::year_index, month_index
\* and day_index give (zero-based)
DateFormats == {"Dmy", "Mdy", "Ymd"}

year_index(format) == IF format = "Ymd" THEN 0 ELSE 2

month_index(format) == IF format = "Mdy" THEN 0 ELSE 1

day_index(format) == CASE format = "Dmy" -> 0 [] format = "Mdy" -> 1 [] OTHER -> 2

\* the calendar of NaiveDate::from_ymd_opt
is_leap_year(year) == year % 4 = 0 /\ (year % 100 # 0 \/ year % 400 = 0)

days_in_month(year, month) ==
    CASE month \in {4, 6, 9, 11} -> 30
      [] month = 2 -> (IF is_leap_year(year) THEN 29 ELSE 28)
      [] OTHER -> 31

RECURSIVE days_before_month(_, _)
days_before_month(year, month) ==
    IF month <= 1 THEN 0
    ELSE days_before_month(year, month - 1) + days_in_month(year, month - 1)

floor_div(a, b) == IF a >= 0 THEN a \div b ELSE -((-a + b - 1) \div b)

from_ymd_opt(year, month, day) ==
    IF /\ year >= -262144 /\ year <= 262143
       /\ month >= 1 /\ month <= 12
       /\ day >= 1 /\ day <= days_in_month(year, month)
    THEN Some(365 * (year - 1) + floor_div(year - 1, 4) - floor_div(year - 1, 100)
              + floor_div(year - 1, 400) + days_before_month(year, month) + day)
    ELSE None

\* the ranges of lines 231 and 233: args[1] for the month, args[0] for the
\* day
month_error_range(args) == args[2].range

day_error_range(args) == args[1].range

\* lines 229-239: the three numbers and the date
date_of(args, format) ==
    LET year == as_number(args[year_index(format) + 1])
        month == as_number(args[month_index(format) + 1])
        day == as_number(args[day_index(format) + 1])
    IN  IF year.kind # "Ok" THEN year
        ELSE IF month.kind # "Ok" THEN month
        ELSE IF month.value < 0
        THEN error("NotU32", <<month_error_range(args)>>)
        ELSE IF day.kind # "Ok" THEN day
        ELSE IF day.value < 0
        THEN error("NotU32", <<day_error_range(args)>>)
        ELSE LET date == from_ymd_opt(year.value, month.value, day.value)
             IN  IF date.kind = "None"
                 THEN error("InvalidDate",
                            <<<<args[1].range[1], Last(args).range[2]>>>>)
                 ELSE Result_Ok(DateObject(date.value))

\* lines 194-212 and on: the checks of the normalised arguments
checked(args, format) ==
    LET empties == {k \in 1..Len(args) : is_empty_string(args[k])}
    IN  IF empties # {}
        THEN error("ExpectedElements",
                   <<args[CHOOSE k \in empties : \A l \in empties : k <= l].range>>)
        ELSE IF Len(args) > 3
        THEN error("UnexpectedElements", <<<<args[4].range[1], Last(args).range[2]>>>>)
        ELSE IF Len(args) < 3
        THEN error("ExpectedElements",
                   <<<<Last(args).range[2], Last(args).range[2] + 1>>>>)
        ELSE date_of(args, format)

\* <DateObject as Object>::parse; settings holds the date format and the
\* delimiter of the context, today is what Local::now() gives
Date_parse(given_args, settings, full_range, today) ==
    IF given_args = <<>> THEN error("ExpectedElements", <<full_range>>)
    ELSE LET first == given_args[1]
             s == to_lowercase(trim(first.value))
             now == /\ first.kind = "String"
                    /\ Len(s) >= 3 /\ SubSeq(s, 1, 3) = <<"n", "o", "w">>
         IN  IF now
             THEN IF Len(s) > 3
                  THEN error("UnexpectedElements",
                             <<<<first.range[1] + 3, first.range[2]>>>>)
                  ELSE IF Len(given_args) > 1
                  THEN error("UnexpectedElements",
                             <<<<given_args[2].range[1], Last(given_args).range[2]>>>>)
                  ELSE Result_Ok(DateObject(today))
             ELSE IF Len(given_args) > 5
             THEN error("UnexpectedElements",
                        <<<<given_args[6].range[1], Last(given_args).range[2]>>>>)
             ELSE LET legal == legality(split_all(given_args, settings.delimiter), 0)
                  IN  IF legal.kind # "Ok" THEN legal
                      ELSE checked(legal.value, settings.format)

\* The text of an object is a row of items: characters and bracketed
\* expressions.  A run of characters is one String argument, an expression
\* one Ast argument of AstWidth bytes; the ranges follow the text.
Char(c) == [kind |-> "Char", value |-> c]

Expression(value) == [kind |-> "Ast", value |-> value]

AstWidth == 3

RECURSIVE arguments_from(_, _, _, _)
arguments_from(items, offset, str, start) ==
    LET flushed == IF str = <<>> THEN <<>>
                   ELSE <<ObjectArgument_String(str, <<start, offset>>)>>
    IN  IF items = <<>> THEN flushed
        ELSE IF Head(items).kind = "Char"
        THEN arguments_from(Tail(items), offset + 1, Append(str, Head(items).value),
                            IF str = <<>> THEN offset ELSE start)
        ELSE flushed
             \o <<ObjectArgument_Ast(Head(items).value, <<offset, offset + AstWidth>>)>>
             \o arguments_from(Tail(items), offset + AstWidth, <<>>, offset)

\* the arguments start behind the name of the object
ArgumentsStart == 5

arguments_of(items) == arguments_from(items, ArgumentsStart, <<>>, ArgumentsStart)

RECURSIVE text_width(_)
text_width(items) ==
    IF items = <<>> THEN 0
    ELSE (IF Head(items).kind = "Char" THEN 1 ELSE AstWidth) + text_width(Tail(items))

\* every text of at most MaxDateItems digits, delimiters, blanks and
\* expressions
DateTexts(length) ==
    SeqsUpTo({Char("1"), Char("."), Char(" "), Expression(Value_Number(<<1, 1>>))},
             length)

\* the texts of three components, each a number or an expression
DateComponents ==
    {<<Char("1")>>, <<Char("-"), Char("1")>>, <<Char("1"), Char("3")>>,
     <<Char("-")>>,
     <<Expression(Value_Number(<<-1, 1>>))>>, <<Expression(Value_Number(<<2, 1>>))>>,
     <<Expression(Value_Number(<<1, 2>>))>>, <<Expression(Value_Object)>>,
     <<Expression(Value_Err)>>}

DateTriples ==
    {a \o <<Char(".")>> \o b \o <<Char(".")>> \o c :
        a \in DateComponents, b \in DateComponents, c \in DateComponents}

\* the texts that start with now
NowTexts ==
    {<<Char("n"), Char("o"), Char("w")>>,
     <<Char(" "), Char("N"), Char("o"), Char("w"), Char(" ")>>,
     <<Char("n"), Char("o"), Char("w"), Char("1")>>,
     <<Char("n"), Char("o"), Char("w"), Expression(Value_Number(<<1, 1>>))>>}

\* the state when DateObject::parse is called on the arguments of a text
InitDateParseOn(texts) ==
    /\ source = <<>>
    /\ functions = [name \in {<<"f">>} |-> 1]
    /\ pc = "call"
    /\ index = 0
    /\ tokens = <<>>
    /\ tokError = NoError
    /\ parser = Parser_new(<<>>, 0)
    /\ outcome = NoOutcome
    /\ \E text \in texts, format \in DateFormats :
            call = [fn |-> "date_parse", given_args |-> arguments_of(text),
                    settings |-> [format |-> format, delimiter |-> "."],
                    full_range |-> <<0, ArgumentsStart + text_width(text) + 1>>]
    /\ returned = NotReturned

InitDateParse ==
    \/ InitDateParseOn(DateTexts(MaxDateItems))
    \/ InitDateParseOn(DateTriples)
    \/ InitDateParseOn(NowTexts)

\* the days Local::now() may give
Todays == {738000, 738001}

\* the call of parse returns
DateParse ==
    /\ pc = "call"
    /\ call.fn = "date_parse"
    /\ \E today \in Todays :
            returned' = Date_parse(call.given_args, call.settings, call.full_range, today)
    /\ pc' = "done"
    /\ UNCHANGED <<source, functions, index, tokens, tokError, parser, outcome, call>>

SpecDateParse == InitDateParse /\ [][DateParse]_vars

-----------------------------------------------------------------------------
(* Properties of tokenize *)

\* tokenize returned Ok(tokens)
TokenizeSucceeded == pc # "tokenize" /\ tokError = NoError

\* the text read back from the tokens: in front of each token, and after the
\* last one, the whitespace bytes of the gap; then the token's own text
RECURSIVE Reassemble(_, _)
Reassemble(toks, from) ==
    LET blank(gap) == SelectSeq(gap, LAMBDA b : b \in WHITESPACE)
    IN  IF toks = <<>>
        THEN blank(Slice(source, from, Len(source)))
        ELSE blank(Slice(source, from, Head(toks).start))
             \o Head(toks).text
             \o Reassemble(Tail(toks), Head(toks).end)

\* C1: when tokenize succeeds, the returned tokens are in source order with
\* strictly increasing, non-overlapping, non-empty half-open byte ranges
\* inside the input, each token's text is the input at its range, no token is
\* Whitespace, every byte outside all tokens is a whitespace byte, and the
\* token texts with the whitespace runs between them give back the input.
C1_TokensCoverSource ==
    TokenizeSucceeded =>
        /\ \A i \in 1..Len(tokens) :
            /\ 0 <= tokens[i].start
            /\ tokens[i].start < tokens[i].end
            /\ tokens[i].end <= Len(source)
            /\ tokens[i].text = Slice(source, tokens[i].start, tokens[i].end)
            /\ tokens[i].ty # "Whitespace"
            /\ tokens[i].ty \in TokenType
        /\ \A i \in 1..(Len(tokens) - 1) : tokens[i].end <= tokens[i + 1].start
        /\ \A b \in 0..(Len(source) - 1) :
            (\A i \in 1..Len(tokens) : ~(tokens[i].start <= b /\ b < tokens[i].end))
                => At(source, b) \in WHITESPACE
        /\ Reassemble(tokens, 0) = source

\* tokenize returned two tokens with whitespace between them, the first of
\* them longer than a byte
C1_Witness ==
    /\ TokenizeSucceeded
    /\ Len(tokens) = 2
    /\ tokens[1].end < tokens[2].start
    /\ tokens[1].end - tokens[1].start >= 2

-----------------------------------------------------------------------------
(* Properties of parse *)

\* parse returned Ok(ParserResult)
ParseSucceeded == pc = "done" /\ outcome.kind \in {"Calculation", "EqualityCheck"}

\* C2: parse returns a ParserResult or an Error on every token sequence
\* tokenize returns; it never aborts (unreachable!(), unwrap on an empty
\* vector, a split or slice out of bounds).
C2_ParseNeverAborts == pc = "done" => outcome.kind # "Panic"

\* every AST inside an AST: the AST itself, the sub-AST of each Group node
\* and the argument ASTs of each function invocation, at any depth
RECURSIVE SubAsts(_)
SubAsts(ast) ==
    {ast} \cup UNION {
        CASE ast[k].data.kind = "Group" -> SubAsts(ast[k].data.value)
          [] ast[k].data.kind = "FunctionInvocation" ->
                UNION {SubAsts(ast[k].data.value[2][j]) :
                          j \in 1..Len(ast[k].data.value[2])}
          [] OTHER -> {}
        : k \in 1..Len(ast)}

\* the ASTs a successful parse returned, with all their sub-ASTs
ReturnedAsts ==
    IF ParseSucceeded THEN SubAsts(outcome.ast) \cup SubAsts(outcome.rhs) ELSE {}

\* the nodes of the returned ASTs, at any depth
ReturnedNodes == UNION {{ast[k] : k \in 1..Len(ast)} : ast \in ReturnedAsts}

\* bracket depth in front of the i-th token (1-based)
RECURSIVE DepthBefore(_, _)
DepthBefore(toks, i) ==
    IF i <= 1 THEN 0
    ELSE DepthBefore(toks, i - 1)
         + (CASE toks[i - 1].ty = "OpenBracket" -> 1
              [] toks[i - 1].ty = "CloseBracket" -> -1
              [] OTHER -> 0)

\* the close bracket matching the open bracket at position i (1-based), or 0
MatchingClose(toks, i) ==
    LET closes == {j \in (i + 1)..Len(toks) :
                      /\ toks[j].ty = "CloseBracket"
                      /\ DepthBefore(toks, j) = DepthBefore(toks, i) + 1}
    IN  IF closes = {} THEN 0 ELSE CHOOSE j \in closes : \A k \in closes : j <= k

\* the token sequences between the commas at bracket depth 0 of toks
RECURSIVE SplitAtCommas(_, _, _)
SplitAtCommas(toks, depth, current) ==
    IF toks = <<>> THEN <<current>>
    ELSE LET t == Head(toks)
         IN  IF t.ty = "Comma" /\ depth = 0
             THEN <<current>> \o SplitAtCommas(Tail(toks), 0, <<>>)
             ELSE SplitAtCommas(Tail(toks),
                                depth + (CASE t.ty = "OpenBracket" -> 1
                                           [] t.ty = "CloseBracket" -> -1
                                           [] OTHER -> 0),
                                Append(current, t))

\* the tokens strictly inside a byte range
TokensInside(range) ==
    SelectSeq(tokens, LAMBDA t : range[1] < t.start /\ t.end < range[2])

EqualsSigns == {i \in 1..Len(tokens) : tokens[i].ty = "EqualsSign"}

\* C3: a parsed top-level input with exactly one `=` is an EqualityCheck
\* whose lhs is exactly the nodes of the tokens left of the sign and whose
\* rhs is exactly the nodes of the tokens right of it; without `=` the
\* result is a Calculation.
C3_EqualityCheckSplitsAtEqualsSign ==
    ParseSucceeded =>
        IF EqualsSigns = {} THEN outcome.kind = "Calculation"
        ELSE \A e \in EqualsSigns :
                (EqualsSigns = {e} /\ DepthBefore(tokens, e) = 0) =>
                    LET all == parser_run(Parser_new(tokens, 0)).result
                        left == parse(SubSeq(tokens, 1, e - 1))
                    IN  /\ outcome.kind = "EqualityCheck"
                        /\ left.kind = "Calculation"
                        /\ outcome.ast = left.ast
                        /\ outcome.ast \o outcome.rhs = all

\* C4: the arguments of a function invocation are the parts of the text
\* between its brackets that the commas at bracket depth 1 separate, and the
\* node holds, in order, the independent parse of each part.
C4_ArgumentsAreTheCommaSeparatedParts ==
    \A node \in ReturnedNodes :
        (node.data.kind = "FunctionInvocation" /\ TokensInside(node.range) # <<>>) =>
            LET parts == SplitAtCommas(TokensInside(node.range), 0, <<>>)
                arguments == node.data.value[2]
            IN  /\ Len(arguments) = Len(parts)
                /\ \A i \in 1..Len(parts) :
                    /\ parse(parts[i]).kind = "Calculation"
                    /\ arguments[i] = parse(parts[i]).ast

\* the number of arguments written between the brackets of a call
WrittenArguments(inner) ==
    IF inner = <<>> THEN 0 ELSE Len(SplitAtCommas(inner, 0, <<>>))

\* the input is one call of f: `f ( ... )`, the last token closing the call
IsSingleCall ==
    /\ Len(tokens) >= 3
    /\ tokens[1].ty = "Identifier"
    /\ is_valid_function(tokens[1].text)
    /\ tokens[2].ty = "OpenBracket"
    /\ MatchingClose(tokens, 2) = Len(tokens)

\* C5: a function invocation parses only if the number of arguments written
\* (0 for `f()`, k+1 for k top-level commas) is the arity of the function;
\* the error of a call with well-formed arguments of another number is
\* WrongNumberOfArguments from the open bracket to the close bracket.
C5_ArgumentCountIsTheArity ==
    /\ \A node \in ReturnedNodes :
        node.data.kind = "FunctionInvocation" =>
            WrittenArguments(TokensInside(node.range))
                = get_arguments_count(node.data.value[1])
    /\ (pc = "done" /\ outcome.kind = "Err" /\ TokenizeSucceeded /\ IsSingleCall) =>
        LET inner == SubSeq(tokens, 3, Len(tokens) - 1)
            parts == SplitAtCommas(inner, 0, <<>>)
        IN  (/\ WrittenArguments(inner) # get_arguments_count(tokens[1].text)
             /\ \A i \in 1..Len(parts) : parse(parts[i]).kind = "Calculation")
            => outcome = Err(with("WrongNumberOfArguments",
                                  tokens[2].start, Last(tokens).end))

\* the byte ranges of the bracket pairs of the input, and of the empty ones
BracketRanges ==
    {<<tokens[i].start, tokens[MatchingClose(tokens, i)].end>> :
        i \in {k \in 1..Len(tokens) :
                  tokens[k].ty = "OpenBracket" /\ MatchingClose(tokens, k) # 0}}

EmptyBracketRanges ==
    {<<tokens[i].start, tokens[i + 1].end>> :
        i \in {k \in 1..(Len(tokens) - 1) :
                  tokens[k].ty = "OpenBracket" /\ tokens[k + 1].ty = "CloseBracket"}}

LiteralRanges ==
    {<<tokens[i].start, tokens[i].end>> :
        i \in {k \in 1..Len(tokens) : tokens[k].ty \in Literals}}

\* C6: the range of every Group node is the byte range of a bracket pair of
\* the input, open bracket to matching close bracket, and the literal 0 of
\* an empty group `()` spans the bytes of its two brackets.
C6_GroupRangesAreByteRanges ==
    \A node \in ReturnedNodes :
        /\ node.data.kind = "Group" =>
                node.range \in BracketRanges \ EmptyBracketRanges
        /\ node.data.kind = "Literal" =>
                node.range \in LiteralRanges \cup EmptyBracketRanges

\* the raw literals that directly follow a number-like token (1-based): a
\* literal, `?`, an identifier, or the bracket that closes a group or a call
LiteralsAfterNumber ==
    {i \in 2..Len(tokens) :
        /\ tokens[i].ty \in Literals
        /\ is_number(tokens[i - 1].ty)
        /\ tokens[i - 1].ty # "OpenBracket"}

Least(S) == CHOOSE i \in S : \A j \in S : i <= j

\* C7: a raw literal directly after a number-like token makes parse fail; the
\* error at the first such literal is ExpectedOperator with its range,
\* whether or not it is the last token.
C7_LiteralAfterNumberIsExpectedOperator ==
    (pc = "done" /\ TokenizeSucceeded /\ LiteralsAfterNumber # {}) =>
        LET literal == tokens[Least(LiteralsAfterNumber)]
        IN  /\ ~ParseSucceeded
            /\ (outcome.kind = "Err" /\ outcome.error.start >= literal.start)
                => outcome.error = with("ExpectedOperator", literal.start, literal.end)

\* the position in front of the run of `!` marks that ends right before the
\* i-th token (i - 1 when no `!` precedes it)
RECURSIVE BeforeMarks(_)
BeforeMarks(i) ==
    IF i > 1 /\ tokens[i - 1].ty = "ExclamationMark" THEN BeforeMarks(i - 1) ELSE i - 1

\* the i-th token opens a (sub-)expression or follows an operator other than
\* `in`, prefix `!` marks apart
WantsOperand(i) ==
    LET j == BeforeMarks(i)
    IN  \/ j = 0
        \/ tokens[j].ty \in {"OpenBracket", "Comma"}
        \/ (is_operator(tokens[j].ty) /\ tokens[j].ty # "In")

\* the i-th token is the last of a (sub-)expression
EndsExpression(i) ==
    \/ i = Len(tokens)
    \/ /\ tokens[i + 1].ty \in {"CloseBracket", "Comma"}
       /\ DepthBefore(tokens, i + 1) > 0

\* operators and `%` where an operand is due, and operators at the end
MisplacedOperators ==
    {i \in 1..Len(tokens) :
        \/ /\ is_operator(tokens[i].ty) \/ tokens[i].ty = "PercentSign"
           /\ WantsOperand(i)
        \/ /\ is_operator(tokens[i].ty)
           /\ EndsExpression(i)}

\* C8: an operator (or `=`) or a `%` that opens a (sub-)expression or directly
\* follows an operator other than `in`, prefix `!` marks apart, and an
\* operator that ends a (sub-)expression, make parse fail; the error at the
\* first such token is ExpectedNumber with its range.
C8_MisplacedOperatorIsExpectedNumber ==
    (pc = "done" /\ TokenizeSucceeded /\ MisplacedOperators # {}) =>
        LET token == tokens[Least(MisplacedOperators)]
        IN  /\ ~ParseSucceeded
            /\ (outcome.kind = "Err" /\ outcome.error.start >= token.start)
                => outcome.error = with("ExpectedNumber", token.start, token.end)

\* C9: no AST a successful parse returns (the calculation, a side of an
\* equality check, a group or argument sub-AST) ends with an operator node.
C9_NoTrailingOperator ==
    \A ast \in ReturnedAsts :
        ast # <<>> => Last(ast).data.kind # "Operator"

\* the token the top-level parser is about to read follows an operand,
\* modifier marks apart
RECURSIVE BeforeModifiers(_)
BeforeModifiers(i) ==
    IF i > 0 /\ At(tokens, i - 1).ty \in {"ExclamationMark", "PercentSign"}
    THEN BeforeModifiers(i - 1)
    ELSE i

FollowsOperand(i) ==
    LET j == BeforeModifiers(i)
    IN  j > 0 /\ ~is_operator(At(tokens, j - 1).ty)

\* C10: in a step of the top-level parser that succeeds, `!` after an operand
\* appends Factorial to the last node and adds no node; `!` at the start or
\* after an operator queues BitwiseNot and changes no node; `%` appends
\* Percent to the last node; an operand that is read takes the queued
\* modifiers, in order, as its node's modifiers; no other node's modifiers
\* change.
C10_ModifiersStep ==
    (/\ pc = "parse"
     /\ parser.status = "running"
     /\ parser'.status = "running"
     /\ parser.index < Len(tokens))
    =>
    LET token == At(tokens, parser.index)
        old == parser.result
        new == parser'.result
        kept == \A k \in 1..Len(old) :
                    k <= Len(new) => new[k].modifiers = old[k].modifiers
    IN  CASE token.ty = "ExclamationMark" /\ FollowsOperand(parser.index) ->
                /\ old # <<>>
                /\ new = push_modifier(old, "Factorial")
                /\ parser'.next_token_modifiers = parser.next_token_modifiers
          [] token.ty = "ExclamationMark" ->
                /\ new = old
                /\ parser'.next_token_modifiers
                        = Append(parser.next_token_modifiers, "BitwiseNot")
          [] token.ty = "PercentSign" ->
                /\ old # <<>>
                /\ new = push_modifier(old, "Percent")
                /\ parser'.next_token_modifiers = parser.next_token_modifiers
          [] token.ty \in Literals \cup {"Identifier", "OpenBracket"} ->
                /\ Len(new) > Len(old)
                /\ kept
                /\ Last(new).data.kind # "Operator"
                /\ Last(new).modifiers = parser.next_token_modifiers
                /\ \A k \in (Len(old) + 1)..(Len(new) - 1) : new[k].modifiers = <<>>
                /\ parser'.next_token_modifiers = <<>>
          [] OTHER -> kept

C10_Modifiers == [][C10_ModifiersStep]_vars

-----------------------------------------------------------------------------

\* the `=` signs (1-based) that stand where only a nesting level above 0 or
\* an earlier top-level `=` makes them wrong: directly after an operand,
\* followed by a token of the same group or argument, and either inside
\* brackets or after another `=` of the top level
MisplacedEqualsSigns ==
    {i \in EqualsSigns :
        /\ 1 < i /\ i < Len(tokens)
        /\ tokens[i - 1].ty \in Literals \cup {"Identifier", "CloseBracket"}
        /\ tokens[i + 1].ty \notin {"CloseBracket", "Comma"}
        /\ \/ DepthBefore(tokens, i) > 0
           \/ \E j \in EqualsSigns : j < i /\ DepthBefore(tokens, j) = 0}

\* C11: `=` is legal only at nesting level 0 and only once.  Unless parse
\* failed on an earlier token, the first `=` that stands inside a bracket
\* group or a function argument makes parse return UnexpectedEqualsSign, and
\* a second `=` of the top level UnexpectedSecondEqualsSign, each with the
\* range of that sign; parse never aborts because a nested parser returned
\* an EqualityCheck.
C11_EqualsSignOnlyAtTopLevel ==
    (pc = "done" /\ TokenizeSucceeded /\ MisplacedEqualsSigns # {}) =>
        LET e == Least(MisplacedEqualsSigns)
            sign == tokens[e]
            expected == IF DepthBefore(tokens, e) > 0
                        THEN "UnexpectedEqualsSign"
                        ELSE "UnexpectedSecondEqualsSign"
        IN  \/ outcome.kind = "Err" /\ outcome.error.start < sign.start
            \/ outcome = Err(with(expected, sign.start, sign.end))

-----------------------------------------------------------------------------

\* the tokens in front of a closing `in <format>`: the input is an
\* expression without `in` or a format keyword, then `in`, then a keyword
FormattedOperand == SubSeq(tokens, 1, Len(tokens) - 2)

EndsWithFormat ==
    /\ Len(tokens) >= 3
    /\ tokens[Len(tokens)].ty \in Formats
    /\ tokens[Len(tokens) - 1].ty = "In"
    /\ \A k \in 1..Len(FormattedOperand) :
            FormattedOperand[k].ty \notin Formats \cup {"In"}
    /\ parse(FormattedOperand).kind = "Calculation"
    /\ parse(FormattedOperand).ast # <<>>

\* C12: for each of the four format keywords, `<operand> in <format>` parses
\* to the nodes of the operand alone, with the display format of the last of
\* them set to the keyword's format and nothing else changed: no node is
\* added for `in` or the keyword, and data, range and modifiers are kept.
C12_FormatKeywordSetsFormat ==
    (pc = "done" /\ TokenizeSucceeded /\ EndsWithFormat) =>
        LET operand == parse(FormattedOperand).ast
        IN  outcome = Calculation(
                [operand EXCEPT ![Len(operand)].format = tokens[Len(tokens)].ty])

-----------------------------------------------------------------------------

\* how many nodes of an AST, its groups and its arguments included, are the
\* operator op
RECURSIVE CountOperator(_, _)
CountOperator(ast, op) ==
    IF ast = <<>> THEN 0
    ELSE LET node == Head(ast)
             args == IF node.data.kind = "FunctionInvocation"
                     THEN node.data.value[2] ELSE <<>>
         IN  (CASE node.data = Operator(op) -> 1
                [] node.data.kind = "Group" -> CountOperator(node.data.value, op)
                [] node.data.kind = "FunctionInvocation" ->
                      CountOperator(Flatten(args), op)
                [] OTHER -> 0)
             + CountOperator(Tail(ast), op)

\* the tokens (1-based) that start a non-empty group or are an identifier
\* and whose previous token, postfix marks apart, is number-like: a literal,
\* `?`, an identifier or the bracket that closes a group or a call
ImpliedMultiplications ==
    {k \in 2..Len(tokens) :
        /\ \/ tokens[k].ty = "Identifier"
           \/ /\ tokens[k].ty = "OpenBracket"
              /\ tokens[k - 1].ty # "Identifier"
              /\ k < Len(tokens) /\ tokens[k + 1].ty # "CloseBracket"
        /\ LET j == BeforeModifiers(k - 1)
           IN  /\ j > 0
              /\ tokens[j].ty \in Literals \cup
                    {"QuestionMark", "Identifier", "CloseBracket"}}

WrittenOperators(ty) == {k \in 1..Len(tokens) : tokens[k].ty = ty}

\* every Multiply node of the AST stands between an operand and a group, a
\* variable or a function invocation
RECURSIVE MultiplyBeforeOperand(_)
MultiplyBeforeOperand(ast) ==
    \A k \in 1..Len(ast) :
        CASE ast[k].data = Operator("Multiply") ->
                /\ 1 < k /\ k < Len(ast)
                /\ ast[k - 1].data.kind # "Operator"
                /\ ast[k + 1].data.kind \in
                      {"Group", "VariableReference", "FunctionInvocation"}
          [] ast[k].data.kind = "Group" -> MultiplyBeforeOperand(ast[k].data.value)
          [] ast[k].data.kind = "FunctionInvocation" ->
                \A a \in 1..Len(ast[k].data.value[2]) :
                    MultiplyBeforeOperand(ast[k].data.value[2][a])
          [] OTHER -> TRUE

\* C13: in a parsed input without a written `*`, the Multiply nodes are
\* exactly the inferred ones: one for every non-empty group or identifier
\* whose previous token, postfix marks apart, is number-like, standing right
\* in front of the node of that group or identifier; every other operator
\* node is a written operator, so an input whose operands are all separated
\* by written operators has exactly the written operators in its AST.  The
\* nodes are read in the order they were built, the two sides of an equality
\* check one after the other.
C13_ImplicitMultiplication ==
    (ParseSucceeded /\ WrittenOperators("Multiply") = {}) =>
        LET ast == outcome.ast \o outcome.rhs
        IN  /\ CountOperator(ast, "Multiply") = Cardinality(ImpliedMultiplications)
            /\ MultiplyBeforeOperand(ast)
            /\ CountOperator(ast, "Plus") = Cardinality(WrittenOperators("Plus"))

-----------------------------------------------------------------------------

\* the byte at i (0-based) cannot start a token: it is no whitespace, digit,
\* dot, letter or one-byte token, and it is `<`, `>`, `:` or 0xC2 only
\* without the byte that must follow
CannotStartToken(s, i) ==
    LET c == At(s, i)
        followed_by(b) == i + 1 < Len(s) /\ At(s, i + 1) = b
    IN  /\ c \notin WHITESPACE \cup DIGITS \cup LETTERS
        /\ c \notin {".", "+", "-", "*", "/", "^", "&", "|", "!", "%", "(", ")",
                     "=", ",", "?"}
        /\ ~(c = "<" /\ followed_by("<"))
        /\ ~(c = ">" /\ followed_by(">"))
        /\ ~(c = ":" /\ followed_by("="))
        /\ ~(c = "C2" /\ followed_by("B0"))

\* tokenize returned Err
TokenizeFailed == pc = "done" /\ tokError # NoError

\* C14: tokenize fails exactly when the cursor reaches a byte that cannot
\* start a token.  The error is InvalidCharacter; its range starts at that
\* byte and ends at the next UTF-8 character boundary, within the input;
\* the call returns the error and no tokens; everything in front of the
\* byte was tokenized, so it is the first such byte the cursor met.  When
\* tokenize succeeds no token starts at such a byte.
C14_InvalidCharacter ==
    /\ TokenizeFailed =>
          /\ outcome = Err(tokError)
          /\ tokError.error = "InvalidCharacter"
          /\ tokError.start < Len(source)
          /\ CannotStartToken(source, tokError.start)
          /\ tokError.start < tokError.end /\ tokError.end <= Len(source)
          /\ is_char_boundary(source, tokError.end)
          /\ \A e \in (tokError.start + 1)..(tokError.end - 1) :
                ~is_char_boundary(source, e)
          /\ \A b \in 0..(tokError.start - 1) :
                \/ At(source, b) \in WHITESPACE
                \/ \E k \in 1..Len(tokens) :
                      tokens[k].start <= b /\ b < tokens[k].end
          /\ \A k \in 1..Len(tokens) :
                /\ tokens[k].end <= tokError.start
                /\ ~CannotStartToken(source, tokens[k].start)
    /\ TokenizeSucceeded =>
          \A k \in 1..Len(tokens) : ~CannotStartToken(source, tokens[k].start)

\* tokenize failed behind a token, on a character of three bytes
C14_Witness ==
    /\ TokenizeFailed
    /\ tokens # <<>>
    /\ tokError.end - tokError.start = 3

-----------------------------------------------------------------------------

\* the call of convert has returned
ConvertReturned == pc = "done" /\ call.fn = "convert"

\* C15: convert from a Product succeeds only into a Product with the same
\* number of factors; into anything else (another kind of unit, or a
\* Product with more or fewer factors) it returns UnitsNotMatching with the
\* caller's range, so that no factor is left unconverted.
C15_ProductNeedsSameArity ==
    (ConvertReturned /\ call.src_unit.kind = "Product") =>
        \/ /\ call.dst_unit.kind = "Product"
           /\ Len(call.dst_unit.value) = Len(call.src_unit.value)
        \/ returned = error("UnitsNotMatching", <<call.range>>)

\* C16: converting a unit into itself returns the value unchanged, for every
\* unit built from unit names, products and fractions, given that
\* convert_units of a name into itself returns its input: a product passes
\* the value through its factors, a fraction divides the converted
\* numerator by the denominator's factor for the probe value 1.0.
C16_ConvertIdentity ==
    (ConvertReturned /\ call.src_unit = call.dst_unit) =>
        returned = Result_Ok(call.n)

\* a fraction whose numerator is a product was converted into itself, with
\* a value other than 0 and 1
C16_Witness ==
    /\ ConvertReturned
    /\ call.src_unit = call.dst_unit
    /\ call.src_unit.kind = "Fraction"
    /\ call.src_unit.value[1].kind = "Product"
    /\ call.n = <<2, 1>>
    /\ returned.kind = "Ok"

-----------------------------------------------------------------------------

\* the call of push_unit has returned
PushUnitReturned == pc = "done" /\ call.fn = "push_unit"

\* C17: push_unit combines left to right.  A unit name a gives the product
\* of a and the operand; a product gives its factors in their order with
\* the operand as one new last factor; a fraction pushed with a fraction
\* gives the fraction of the two numerators pushed together and the two
\* denominators pushed together; a fraction pushed with anything else gives
\* the fraction of the numerator pushed with the operand and the
\* denominator as it was.
C17_PushUnit ==
    PushUnitReturned =>
        LET receiver == call.self
            other == call.other
            result == returned.value
        IN  /\ returned.kind = "Ok"
            /\ CASE receiver.kind = "Unit" ->
                      result = Unit_Product(<<receiver, other>>)
                 [] receiver.kind = "Product" ->
                      /\ result.kind = "Product"
                      /\ Len(result.value) = Len(receiver.value) + 1
                      /\ SubSeq(result.value, 1, Len(receiver.value)) = receiver.value
                      /\ result.value[Len(result.value)] = other
                 [] receiver.kind = "Fraction" /\ other.kind = "Fraction" ->
                      /\ result.kind = "Fraction"
                      /\ result.value[1] = push_unit(receiver.value[1], other.value[1])
                      /\ result.value[2] = push_unit(receiver.value[2], other.value[2])
                 [] receiver.kind = "Fraction" /\ other.kind # "Fraction" ->
                      /\ result.kind = "Fraction"
                      /\ result.value[1] = push_unit(receiver.value[1], other)
                      /\ result.value[2] = receiver.value[2]

\* a fraction was pushed with a fraction, and a product with a product
C17_Witness ==
    /\ PushUnitReturned
    /\ call.self.kind = "Fraction" /\ call.other.kind = "Fraction"
    /\ returned.value.value[1].kind = "Product"

-----------------------------------------------------------------------------

\* the call of apply has returned from adding or subtracting two vectors
VectorsCombined ==
    /\ pc = "done" /\ call.fn = "apply"
    /\ call.op[1] \in {"Plus", "Minus"}
    /\ call.other.data.kind = "Vector"

\* C18: applying + or - to a vector and another vector of the same length
\* returns a vector of that length whose i-th component is
\* self[i] + other[i] for +, self[i] - other[i] for - when the vector is
\* the left operand and other[i] - self[i] when it is the right operand;
\* when the lengths differ it returns VectorLengthsNotMatching with both
\* operands' ranges, never a shorter vector.
C18_VectorPlusMinus ==
    VectorsCombined =>
        LET mine == call.self.numbers
            theirs == call.other.data.value.numbers
        IN  IF Len(mine) = Len(theirs)
            THEN /\ returned.kind = "Ok"
                 /\ returned.value.data.kind = "Vector"
                 /\ Len(returned.value.data.value.numbers) = Len(mine)
                 /\ \A i \in 1..Len(mine) :
                        returned.value.data.value.numbers[i] =
                            IF call.op[1] = "Plus" THEN Add(mine[i], theirs[i])
                            ELSE IF call.self_is_rhs THEN Subtract(theirs[i], mine[i])
                            ELSE Subtract(mine[i], theirs[i])
            ELSE returned = error("VectorLengthsNotMatching",
                                  <<call.self_range, call.other.range>>)

\* a vector was subtracted as the right operand from a vector of the same
\* length, with a result that depends on the order
C18_Witness ==
    /\ VectorsCombined
    /\ call.op[1] = "Minus" /\ call.self_is_rhs
    /\ Len(call.self.numbers) = 2
    /\ returned.kind = "Ok"
    /\ returned.value.data.value.numbers[1] # <<0, 1>>

\* the call of call has returned
VectorCalled == pc = "done" /\ call.fn = "call"

\* C19: calling a vector takes exactly one argument: with none or with more
\* than one it returns WrongNumberOfArguments with the arguments' range, and
\* with one argument that has a fractional part it returns ExpectedInteger
\* with that argument's range.
C19_VectorCallArguments ==
    VectorCalled =>
        /\ Len(call.args) # 1 =>
                returned = error("WrongNumberOfArguments", <<call.args_range>>)
        /\ (Len(call.args) = 1 /\ call.args[1][1].number[2] # 1) =>
                returned = error("ExpectedInteger", <<call.args[1][2]>>)

\* C20: calling a vector with one whole number i returns a literal of
\* component i when 0 <= i < length and a NaN literal for every other i,
\* past the end or negative: never an error, never another component.
C20_VectorCallIndex ==
    (VectorCalled /\ Len(call.args) = 1 /\ call.args[1][1].number[2] = 1) =>
        LET i == call.args[1][1].number[1]
            numbers == call.self.numbers
        IN  returned = Result_Ok(AstNode_new(
                Literal(IF 0 <= i /\ i < Len(numbers) THEN numbers[i + 1] ELSE NAN),
                call.self_range))

-----------------------------------------------------------------------------

\* the call of apply has returned from subtracting two dates
DatesSubtracted ==
    /\ pc = "done" /\ call.fn = "date_apply"
    /\ call.op[1] = "Minus"
    /\ call.other.data.kind = "Date"

\* C21: for dateA - dateB the result is a literal with the unit "d" whose
\* value is the signed number of days from dateB to dateA, whether apply
\* is called on dateA (as the left operand) or on dateB (as the right
\* operand, self_is_rhs); swapping the operands negates the value.
C21_DateDifference ==
    DatesSubtracted =>
        LET dateA == IF call.self_is_rhs THEN call.other.data.value.date ELSE call.self.date
            dateB == IF call.self_is_rhs THEN call.self.date ELSE call.other.data.value.date
        IN  /\ returned.kind = "Ok"
            /\ returned.value.data = Literal(<<dateA - dateB, 1>>)
            /\ returned.value.unit = Some(Unit_Unit(<<"d">>))

-----------------------------------------------------------------------------

\* the positions of the bytes "." inside a token
PointsIn(token) ==
    {b \in token.start..(token.end - 1) : At(source, b) = "."}

\* C22: every DecimalLiteral token is made of digits and underscores with
\* at most one "."; a second "." is never taken into the same token,
\* whatever the first digit of the literal is (a leading 0 included).
C22_DecimalLiteralHasOnePoint ==
    \A k \in 1..Len(tokens) :
        tokens[k].ty = "DecimalLiteral" =>
            /\ \A b \in tokens[k].start..(tokens[k].end - 1) :
                    At(source, b) \in NUMBERS \cup {"."}
            /\ Cardinality(PointsIn(tokens[k])) <= 1

-----------------------------------------------------------------------------

\* the call of DateObject::parse has returned, on arguments that do not
\* start with the text now
DateParsed ==
    /\ pc = "done" /\ call.fn = "date_parse"
    /\ ~(/\ call.given_args # <<>>
         /\ call.given_args[1].kind = "String"
         /\ LET s == to_lowercase(trim(call.given_args[1].value))
            IN  Len(s) >= 3 /\ SubSeq(s, 1, 3) = <<"n", "o", "w">>)

\* the fragments: every string argument split on the delimiter
Fragments == split_all(call.given_args, call.settings.delimiter)

\* the empty fragments next to an expression, which are removed
RemovedFragments ==
    {k \in 1..Len(Fragments) :
        /\ is_empty_string(Fragments[k])
        /\ \/ k > 1 /\ is_ast(Fragments[k - 1])
           \/ k < Len(Fragments) /\ is_ast(Fragments[k + 1])}

\* the components that remain
Components3 ==
    SelectSeq([k \in 1..Len(Fragments) |-> [position |-> k, fragment |-> Fragments[k]]],
              LAMBDA c : c.position \notin RemovedFragments)

\* what the count of the remaining components asks for
CountedAs(result) ==
    IF \E k \in 1..Len(Components3) : is_empty_string(Components3[k].fragment)
    THEN result.kind = "Err" /\ result.error.error = "ExpectedElements"
    ELSE IF Len(Components3) < 3
    THEN result.kind = "Err" /\ result.error.error = "ExpectedElements"
    ELSE IF Len(Components3) > 3
    THEN result.kind = "Err" /\ result.error.error = "UnexpectedElements"
    ELSE ~(/\ result.kind = "Err"
           /\ result.error.error \in {"ExpectedDot", "ExpectedElements",
                                       "UnexpectedElements"})

\* an expression with no empty fragment on one of its two sides
UnboundedExpression ==
    \E k \in 1..Len(Fragments) :
        /\ is_ast(Fragments[k])
        /\ ~(/\ k > 1 /\ is_empty_string(Fragments[k - 1])
             /\ k < Len(Fragments) /\ is_empty_string(Fragments[k + 1]))

MisplacedExpression ==
    \E k \in 1..Len(Fragments) :
        /\ is_ast(Fragments[k])
        /\ \/ k < Len(Fragments) /\ ~is_empty_string(Fragments[k + 1])
           \/ k > 1 /\ ~is_empty_string(Fragments[k - 1])
           \/ k > 2 /\ is_ast(Fragments[k - 2])

-----------------------------------------------------------------------------

\* the three components of a date whose arguments passed the checks of
\* their number and places (<<>> when they did not)
ThreeComponents ==
    LET legal == legality(Fragments, 0)
    IN  IF /\ call.given_args # <<>> /\ Len(call.given_args) <= 5
           /\ legal.kind = "Ok"
           /\ Len(legal.value) = 3
           /\ \A k \in 1..3 : ~is_empty_string(legal.value[k])
        THEN legal.value
        ELSE <<>>

\* the component the format gives a part of the date
YearComponent == ThreeComponents[year_index(call.settings.format) + 1]

MonthComponent == ThreeComponents[month_index(call.settings.format) + 1]

DayComponent == ThreeComponents[day_index(call.settings.format) + 1]

\* the component is a negative whole number
IsNegative(component) ==
    LET number == as_number(component)
    IN  number.kind = "Ok" /\ number.value < 0

IsNumber(component) == as_number(component).kind = "Ok"

\* C26: when the month or the day of a date is a negative whole number,
\* DateObject::parse fails with NotU32 and the range of that same
\* component, in each of the three orders D-M-Y, M-D-Y and Y-M-D.
C26_NotU32Range ==
    (DateParsed /\ ThreeComponents # <<>> /\ IsNumber(YearComponent)) =>
        /\ IsNegative(MonthComponent) =>
                returned = error("NotU32", <<MonthComponent.range>>)
        /\ (IsNumber(MonthComponent) /\ ~IsNegative(MonthComponent)
               /\ IsNegative(DayComponent)) =>
                returned = error("NotU32", <<DayComponent.range>>)

-----------------------------------------------------------------------------

\* a step of the top-level parser that appends a node while prefix
\* modifiers are pending
AppendsWhilePending ==
    /\ pc = "parse"
    /\ parser.status = "running"
    /\ parser'.status = "running"
    /\ Len(parser'.result) > Len(parser.result)
    /\ parser.next_token_modifiers # <<>>

\* the appended node takes the pending modifiers and is no operator node
C24_Step ==
    AppendsWhilePending =>
        /\ Last(parser'.result).modifiers = parser.next_token_modifiers
        /\ Last(parser'.result).data.kind # "Operator"
        /\ parser'.next_token_modifiers = <<>>

\* no operator node of a returned AST, at any depth, carries a BitwiseNot
NoOperatorWithBitwiseNot ==
    \A node \in ReturnedNodes :
        node.data.kind = "Operator" =>
            \A k \in 1..Len(node.modifiers) : node.modifiers[k] # "BitwiseNot"

\* C24: every node that is appended to the AST while BitwiseNot modifiers
\* are pending (the literal 0 of an empty group included) receives all of
\* them and leaves the queue empty, so that a prefix ! lands on the operand
\* that follows it and never on an operator node.
C24_PendingModifiersAreConsumed ==
    [][C24_Step]_vars /\ []NoOperatorWithBitwiseNot

-----------------------------------------------------------------------------

\* the tokens (1-based) directly after an in that are no format keyword
\* and no close bracket
NoFormatAfterIn ==
    {i \in 2..Len(tokens) :
        /\ tokens[i - 1].ty = "In"
        /\ tokens[i].ty \notin Formats \cup {"CloseBracket"}}

\* C25: in asks for a format keyword behind it: when the token directly
\* after in is an operand, an operator or a modifier, in last position or
\* not, parse fails, and the error at the first such token is
\* ExpectedFormat with its range.
C25_InNeedsFormat ==
    (pc = "done" /\ TokenizeSucceeded /\ NoFormatAfterIn # {}) =>
        LET token == tokens[Least(NoFormatAfterIn)]
        IN  /\ ~ParseSucceeded
            /\ (outcome.kind = "Err" /\ outcome.error.start >= token.start)
                => outcome.error = with("ExpectedFormat", token.start, token.end)

-----------------------------------------------------------------------------

\* the text of a literal without its digit separators
WithoutSeparators(text) == SelectSeq(text, LAMBDA c : c # "_")

\* what a literal token stands for, read with its separators left out
LiteralValue(token) ==
    CASE token.ty = "DecimalLiteral" -> parse_f64(WithoutSeparators(token.text))
      [] token.ty = "HexLiteral" -> parse_f64_radix(WithoutSeparators(token.text), 16)
      [] token.ty = "BinaryLiteral" -> parse_f64_radix(WithoutSeparators(token.text), 2)

\* the literal tokens (1-based)
LiteralTokens == {i \in 1..Len(tokens) : tokens[i].ty \in Literals}

\* C27: parse turns a literal token into a Literal node with its value
\* (decimal text as written, hex and binary digits behind the prefix in
\* base 16 and 2) and returns InvalidNumber, with the token's range, only
\* for a literal without digits or a hex or binary value of 2^63 or more;
\* the underscores the tokenizer takes as digit separators do not make a
\* literal invalid.
C27_LiteralValues ==
    (pc = "done" /\ TokenizeSucceeded) =>
        /\ (outcome.kind = "Err" /\ outcome.error.error = "InvalidNumber") =>
                \E i \in LiteralTokens :
                    /\ outcome.error = with("InvalidNumber", tokens[i].start, tokens[i].end)
                    /\ ~LiteralValue(tokens[i]).ok
        /\ \A node \in ReturnedNodes : \A i \in LiteralTokens :
                (node.data.kind = "Literal"
                    /\ node.range = <<tokens[i].start, tokens[i].end>>)
                => (/\ LiteralValue(tokens[i]).ok
                    /\ node.data.value = LiteralValue(tokens[i]).number)

-----------------------------------------------------------------------------

\* the deepest bracket nesting of the tokens
BracketDepth ==
    LET depths == {DepthBefore(tokens, i) : i \in 1..(Len(tokens) + 1)}
    IN  CHOOSE d \in depths : \A e \in depths : e <= d

\* how deep the sub-ASTs of an AST are nested: the number of parsers that
\* ran inside one another to build it
RECURSIVE AstDepth(_)
AstDepth(ast) ==
    LET below == {AstDepth(sub) + 1 : sub \in
                    UNION {CASE ast[k].data.kind = "Group" -> {ast[k].data.value}
                             [] ast[k].data.kind = "FunctionInvocation" ->
                                  {ast[k].data.value[2][j] :
                                      j \in 1..Len(ast[k].data.value[2])}
                             [] OTHER -> {}
                           : k \in 1..Len(ast)}}
    IN  IF below = {} THEN 0 ELSE CHOOSE d \in below : \A e \in below : e <= d

\* a step of the tokenizer moves the cursor on by at least one byte and not
\* past the end; a step of the parser that has a token left consumes at
\* least one token and not more than there are
C28_Step ==
    /\ (pc = "tokenize" /\ index < Len(source)) =>
            (index' > index /\ index' <= Len(source))
    /\ (pc = "parse" /\ parser.status = "running" /\ parser.index < Len(parser.tokens)) =>
            (parser'.index > parser.index /\ parser'.index <= Len(parser.tokens))

\* an iteration of the loop of Parser::parse changes the parser
C28_ParserMoves == ParserRuns => parser_next(parser) # parser

\* the nesting of a returned AST is at most the bracket nesting of the input
C28_Depth ==
    ParseSucceeded =>
        (AstDepth(outcome.ast) <= BracketDepth /\ AstDepth(outcome.rhs) <= BracketDepth)

\* C28: tokenize and parse terminate on every input: each step of the
\* tokenizer moves the cursor on by at least one byte and never past the
\* end, each step of the parser consumes at least one token, the parsers
\* of groups and arguments are nested no deeper than the brackets of the
\* input, and the call returns.
C28_Terminates ==
    [][C28_Step]_vars /\ []C28_ParserMoves /\ []C28_Depth /\ <>(pc = "done")

\* a parse returned an AST with a group inside a group
C28_Witness == ParseSucceeded /\ AstDepth(outcome.ast) = 2 /\ BracketDepth = 2

-----------------------------------------------------------------------------

\* the node is an operator; every other node is an operand
IsOperatorNode(node) == node.data.kind = "Operator"

\* neighbours in the AST are an operand and an operator
Alternates(ast) ==
    \A k \in 1..(Len(ast) - 1) : IsOperatorNode(ast[k]) # IsOperatorNode(ast[k + 1])

\* C29: in every AST a successful parse returns, and in every Group and
\* function-argument sub-AST, operand nodes and operator nodes alternate:
\* no two operands and no two operators are neighbours.
C29_NodesAlternate == \A ast \in ReturnedAsts : Alternates(ast)

-----------------------------------------------------------------------------

\* the tokens begin with an operand expression, `in` and a format keyword,
\* and go on behind the keyword, which is the k-th token
ContinuesAfterFormat(k) ==
    /\ k >= 3
    /\ k < Len(tokens)
    /\ tokens[k].ty \in {"Decimal", "Hex", "Binary"}
    /\ tokens[k - 1].ty = "In"
    /\ \A j \in 1..(k - 2) : tokens[j].ty \notin Formats \cup {"In"}
    /\ parse(SubSeq(tokens, 1, k - 2)).kind = "Calculation"
    /\ parse(SubSeq(tokens, 1, k - 2)).ast # <<>>

\* parse failed with the error at the token
RejectedAt(token) ==
    /\ outcome.kind = "Err"
    /\ outcome.error.start = token.start
    /\ outcome.error.end = token.end

\* C30: after `<operand> in <format>` the expression may go on: an operator
\* directly after the format keyword, with more behind it, is not rejected,
\* while a second format keyword or an operand there is rejected with
\* ExpectedOperator at its range.
C30_AfterFormat ==
    pc = "done" =>
        \A k \in 1..Len(tokens) :
            ContinuesAfterFormat(k) =>
                LET token == tokens[k + 1]
                IN  IF is_operator(token.ty)
                    THEN k + 1 < Len(tokens) =>
                            (outcome.kind # "Panic" /\ ~RejectedAt(token))
                    ELSE (is_format(token.ty) \/ is_number(token.ty)) =>
                            outcome = Err(with("ExpectedOperator", token.start, token.end))

=============================================================================
